---------------------------- MODULE Spec2Model ----------------------------
(***************************************************************************)
(* Model of rattler_installs_packages (rip).                               *)
(*                                                                         *)
(* Part 1: WheelBuilder (wheel_builder/mod.rs): the concurrent             *)
(* sdist-to-wheel build coordinator.  Every task is a caller of            *)
(* build_wheel / get_sdist_metadata on one shared WheelBuilder.  A step of *)
(* the model is one lock-protected section or one stretch of code between  *)
(* two points at which other threads can observe the shared state          *)
(* (the multi-threaded tokio runtime of the tests).                        *)
(***************************************************************************)
EXTENDS Integers, Sequences, FiniteSets, TLC

\* ------------------------------------------------------------------ bounds
\* number of concurrently running caller tasks
NumTasks == 2
\* total number of calls the callers start in one behaviour
MaxCalls == 2
\* total number of build_wheel calls in one behaviour of SetupSpec
MaxSetupCalls == 3

Tasks == 1..NumTasks

\* SourceArtifactName values (sdist.artifact_name()) of the test fixtures
Names == {"rich", "tampered-rich"}
\* interpreter versions: the builder's own and the one of tests::build_with_cache
Versions == {"3.x", "1.0.0"}
\* OnWheelBuildFailure
Policies == {"DeleteBuildEnv", "SaveBuildEnv"}

\* Option<Arc<BuildEnvironment>> as carried by the broadcast channel, plus the
\* two states of a channel slot that carry no value
Empty == [kind |-> "empty", env |-> 0]
None == [kind |-> "None", env |-> 0]
Some(e) == [kind |-> "Some", env |-> e]

VARIABLES
    python_version,          \* WheelBuilder.python_version
    on_wheel_build_failure,  \* resolve_options.on_wheel_build_failure
    venv_cache,              \* Names -> env (0: no entry)
    in_setup_venv,           \* Names -> channel whose Weak<Sender> is stored (0: no entry)
    saved_build_envs,        \* set of envs whose work_dir is in the set
    wheel_cache,             \* package_db.local_wheel_cache(): the associated keys
    venv_cache_lock,         \* owner of the Mutex (0: unlocked)
    in_setup_venv_lock,
    saved_build_envs_lock,
    channels,                \* every broadcast::channel(1) created so far
    envs,                    \* every BuildEnvironment constructed so far
    task,                    \* per caller: position and locals of its current call
    ncalls,                  \* calls started so far
    archive_bytes,           \* the zip stream handed to extract_zip_archive
    store,                   \* per cache directory: the blobs of the content store
    extract,                 \* per invocation of extract_zip_archive: its locals
    codec,                   \* a CachedArchiveData on its way through the codec
    wheel,                   \* a wheel: its filename, its archive, what was read
    prefetch,                \* a range-fetched stream: its sizes, what was prefetched
    egg                      \* an egg filename on its way through Display and FromStr

vars == <<python_version, on_wheel_build_failure, venv_cache, in_setup_venv,
          saved_build_envs, wheel_cache, venv_cache_lock, in_setup_venv_lock,
          saved_build_envs_lock, channels, envs, task, ncalls,
          archive_bytes, store, extract, codec, wheel,
          prefetch, egg>>

\* the state of the archive extractor, which no WheelBuilder step touches
extractor == <<archive_bytes, store, extract>>

\* the state of the readers and codecs, which no WheelBuilder or extractor
\* step touches
readers == <<codec, wheel, prefetch, egg>>

config == <<python_version, on_wheel_build_failure>>
locks == <<venv_cache_lock, in_setup_venv_lock, saved_build_envs_lock>>

\* locals of a caller that is not inside a call
IdleTask == [pc |-> "idle", op |-> "none", name |-> "rich", ver |-> "3.x",
             env |-> 0, outer_env |-> 0, nested |-> FALSE, tx |-> 0,
             rx |-> 0, rx_val |-> Empty, result |-> "none", via |-> "none",
             code |-> 0]

\* WheelBuilder::new
WheelBuilderInit ==
    /\ python_version = "3.x"
    /\ on_wheel_build_failure \in Policies
    /\ venv_cache = [n \in Names |-> 0]
    /\ in_setup_venv = [n \in Names |-> 0]
    /\ saved_build_envs = {}
    /\ wheel_cache = {}
    /\ venv_cache_lock = 0
    /\ in_setup_venv_lock = 0
    /\ saved_build_envs_lock = 0
    /\ channels = <<>>
    /\ envs = <<>>
    /\ task = [t \in Tasks |-> IdleTask]
    /\ ncalls = 0

\* no archive is being extracted
Init ==
    /\ WheelBuilderInit
    /\ archive_bytes = <<>>
    /\ store = <<>>
    /\ extract = <<>>
    /\ codec = <<>>
    /\ wheel = <<>>
    /\ prefetch = <<>>
    /\ egg = <<>>

\* ------------------------------------------------------- the wheel cache
\* (a key that leaves the interpreter version out)
from_sdist_no_version(n, v) == <<n, "any">>

\* WheelCacheKey::from_sdist(sdist, python_version)
from_sdist(n, v) == <<n, v>>

\* WheelCache::wheel_for_key(key): Some(wheel) iff a wheel was associated
wheel_for_key(cache, key) == key \in cache

\* WheelCache::associate_wheel(key, ..)
associate_wheel(cache, key) == cache \cup {key}


\* (a lookup that is never taken for a hit)
local_wheel_never(n) == FALSE

\* the fast path of build_wheel / get_sdist_metadata: a wheel was already built
\* for this sdist under the builder's interpreter version
local_wheel_hit(n) == wheel_for_key(wheel_cache, from_sdist(n, python_version))

\* ------------------------------------------------------ channel plumbing
\* (an upgrade that fails although the sender is alive, and one that
\* succeeds although it is gone)
upgrade_never(c) == FALSE
upgrade_always(c) == TRUE

\* Weak::upgrade on the stored Weak<Sender>: Some iff a strong Arc is alive
upgrade(c) == channels[c].alive

\* broadcast::channel(1) for an sdist: the Arc<Sender> is alive, nothing sent
\* (end: how the sender went away; rx_cancelled: a receiver was dropped
\* before it received; both only record what happened)
new_channel(n) == [name |-> n, alive |-> TRUE, sent |-> Empty,
                   end |-> "open", rx_cancelled |-> FALSE]

\* Sender::send(v): the value reaches exactly the receivers that subscribed
\* before the send and have not been dropped (the send error when there is
\* no receiver is ignored by the caller)
send(sender, c, v) ==
    [u \in Tasks |->
        IF u = sender THEN task[u]
        ELSE IF task[u].pc = "recv" /\ task[u].rx = c
             THEN [task[u] EXCEPT !.rx_val = v]
             ELSE task[u]]

\* (a sender that is kept alive after its owner is gone)
drop_sender_leaked(c) == channels

\* the last Arc<Sender> goes out of scope: the channel closes
drop_sender(c) == [channels EXCEPT ![c].alive = FALSE]

\* lock.insert(name.clone(), Arc::downgrade(&tx))
\* (and a provisioner that forgets to register its channel)
register_forgotten(n, c) == in_setup_venv
register(n, c) == [in_setup_venv EXCEPT ![n] = c]

\* (a guard that is still held when the block is left)
in_setup_guard_kept(t) == t

\* the MutexGuard of in_setup_venv goes out of scope at the end of the block
in_setup_guard_dropped(t) == 0

\* ------------------------------------- where setup_build_venv returns to
\* Ok(env): get_sdist_metadata runs the WheelMetadata phase, build_wheel
\* (also the one nested in the exit-code-50 fallback) the Wheel phase
setup_returns_ok(l, e) ==
    [l EXCEPT !.env = e, !.tx = 0, !.rx = 0, !.rx_val = Empty,
              !.pc = IF l.op = "get_sdist_metadata" /\ ~l.nested
                     THEN "run_meta" ELSE "run_wheel"]

\* Err(r): `?` leaves build_wheel / get_sdist_metadata at once; out of the
\* nested build_wheel it leaves get_sdist_metadata_internal, whose caller
\* then runs handle_build_failure with the outer build environment
setup_returns_err(l, r) ==
    IF l.nested
    THEN [l EXCEPT !.result = r, !.nested = FALSE, !.env = l.outer_env,
                   !.outer_env = 0, !.tx = 0, !.rx = 0, !.rx_val = Empty,
                   !.pc = "handle_failure"]
    ELSE [l EXCEPT !.result = r, !.tx = 0, !.rx = 0, !.rx_val = Empty,
                   !.pc = "idle"]

\* ------------------------------------------------------------ entry points
start(op, n, v) == [IdleTask EXCEPT !.op = op, !.name = n, !.ver = v]

\* build_wheel up to the call of setup_build_venv, as one of at most max calls
build_wheel_of(t, n, max) ==
    /\ task[t].pc = "idle"
    /\ ncalls < max
    /\ ncalls' = ncalls + 1
    /\ LET l == start("build_wheel", n, python_version) IN
       task' = [task EXCEPT ![t] =
                   IF local_wheel_hit(n)
                   THEN [l EXCEPT !.result = "ok", !.via = "wheel_cache"]
                   ELSE [l EXCEPT !.pc = "venv_lock"]]
    /\ UNCHANGED <<extractor, readers, config, locks, venv_cache, in_setup_venv, saved_build_envs,
                   wheel_cache, channels, envs>>

build_wheel(t, n) == build_wheel_of(t, n, MaxCalls)

\* get_sdist_metadata up to the call of setup_build_venv; meta_ok is the
\* outcome of wheel.metadata() on the cached wheel
get_sdist_metadata(t, n, meta_ok) ==
    /\ task[t].pc = "idle"
    /\ ncalls < MaxCalls
    /\ ncalls' = ncalls + 1
    /\ LET l == start("get_sdist_metadata", n, python_version) IN
       task' = [task EXCEPT ![t] =
                   IF local_wheel_hit(n)
                   THEN [l EXCEPT !.result = IF meta_ok THEN "ok" ELSE "err_parse",
                                  !.via = "wheel_cache"]
                   ELSE [l EXCEPT !.pc = "venv_lock"]]
    /\ UNCHANGED <<extractor, readers, config, locks, venv_cache, in_setup_venv, saved_build_envs,
                   wheel_cache, channels, envs>>

\* a direct lookup in the local wheel cache under any interpreter version,
\* as tests::build_with_cache does
lookup_wheel(t, n, v) ==
    /\ task[t].pc = "idle"
    /\ ncalls < MaxCalls
    /\ ncalls' = ncalls + 1
    /\ LET l == start("wheel_for_key", n, v) IN
       task' = [task EXCEPT ![t] =
                   [l EXCEPT !.result =
                        IF wheel_for_key(wheel_cache, from_sdist(n, v))
                        THEN "hit" ELSE "miss"]]
    /\ UNCHANGED <<extractor, readers, config, locks, venv_cache, in_setup_venv, saved_build_envs,
                   wheel_cache, channels, envs>>

\* -------------------------------------------------------- setup_build_venv
\* self.venv_cache.lock()
lock_venv_cache(t) ==
    /\ task[t].pc = "venv_lock"
    /\ venv_cache_lock = 0
    /\ venv_cache_lock' = t
    /\ task' = [task EXCEPT ![t].pc = "venv_get"]
    /\ UNCHANGED <<extractor, readers, config, in_setup_venv_lock, saved_build_envs_lock, venv_cache,
                   in_setup_venv, saved_build_envs, wheel_cache, channels, envs,
                   ncalls>>

\* (a lookup that goes on to in_setup_venv whatever the cache holds)
venv_cache_get_miss(t) ==
    /\ task[t].pc = "venv_get"
    /\ task' = [task EXCEPT ![t].pc = "in_setup_lock"]
    /\ venv_cache_lock' = 0
    /\ UNCHANGED <<extractor, readers, config, in_setup_venv_lock, saved_build_envs_lock, venv_cache,
                   in_setup_venv, saved_build_envs, wheel_cache, channels, envs,
                   ncalls>>

\* .get(&name): a cached venv is returned, otherwise go on to in_setup_venv
venv_cache_get(t) ==
    /\ task[t].pc = "venv_get"
    /\ LET l == task[t]
           e == venv_cache[l.name] IN
       task' = [task EXCEPT ![t] =
                   IF e # 0
                   THEN setup_returns_ok([l EXCEPT !.via = "venv_cache"], e)
                   ELSE [l EXCEPT !.pc = "in_setup_lock"]]
    /\ venv_cache_lock' = 0
    /\ UNCHANGED <<extractor, readers, config, in_setup_venv_lock, saved_build_envs_lock, venv_cache,
                   in_setup_venv, saved_build_envs, wheel_cache, channels, envs,
                   ncalls>>

\* self.in_setup_venv.lock()
lock_in_setup_venv(t) ==
    /\ task[t].pc = "in_setup_lock"
    /\ in_setup_venv_lock = 0
    /\ in_setup_venv_lock' = t
    /\ task' = [task EXCEPT ![t].pc = "in_setup_check"]
    /\ UNCHANGED <<extractor, readers, config, venv_cache_lock, saved_build_envs_lock, venv_cache,
                   in_setup_venv, saved_build_envs, wheel_cache, channels, envs,
                   ncalls>>

\* match lock.get(&name): subscribe to a live sender (SettingUp), or install
\* a new channel and become the one that sets up (New)
check_in_flight(t) ==
    /\ task[t].pc = "in_setup_check"
    /\ LET l == task[t]
           c == in_setup_venv[l.name]
           fresh == Len(channels) + 1 IN
       IF c # 0 /\ upgrade(c)
       THEN /\ task' = [task EXCEPT ![t] =
                           [l EXCEPT !.rx = c, !.rx_val = Empty, !.via = "waited",
                                     !.pc = "recv"]]
            /\ UNCHANGED <<channels, in_setup_venv>>
       ELSE /\ channels' = Append(channels, new_channel(l.name))
            /\ in_setup_venv' = register(l.name, fresh)
            /\ task' = [task EXCEPT ![t] =
                           [l EXCEPT !.tx = fresh, !.via = "provisioned",
                                     !.pc = "provision"]]
    /\ in_setup_venv_lock' = in_setup_guard_dropped(t)
    /\ UNCHANGED <<extractor, readers, config, venv_cache_lock, saved_build_envs_lock, venv_cache,
                   saved_build_envs, wheel_cache, envs, ncalls>>

\* rx.recv().await: a value that was sent after the subscription, or the
\* error of a closed channel once every sender is gone
recv(t) ==
    /\ task[t].pc = "recv"
    /\ LET l == task[t] IN
       /\ l.rx_val.kind # "empty" \/ ~channels[l.rx].alive
       /\ task' = [task EXCEPT ![t] =
                      IF l.rx_val.kind = "Some"
                      THEN setup_returns_ok(l, l.rx_val.env)
                      ELSE IF l.rx_val.kind = "None"
                      THEN setup_returns_err(l, "err_setup_failed")
                      ELSE setup_returns_err(l, "err_setup_panicked")]
    /\ UNCHANGED <<extractor, readers, config, locks, venv_cache, in_setup_venv, saved_build_envs,
                   wheel_cache, channels, envs, ncalls>>


\* future().await returns Ok: BuildEnvironment::setup, install_build_files and
\* install_extra_requirements all succeeded; the new environment is wrapped in
\* an Arc and self.venv_cache.lock() is taken
setup_succeeds(t) ==
    /\ task[t].pc = "provision"
    /\ venv_cache_lock = 0
    /\ venv_cache_lock' = t
    /\ envs' = Append(envs, [name |-> task[t].name, persisted |-> FALSE])
    /\ task' = [task EXCEPT ![t] = [@ EXCEPT !.env = Len(envs) + 1,
                                             !.pc = "venv_insert"]]
    /\ UNCHANGED <<extractor, readers, config, in_setup_venv_lock, saved_build_envs_lock, venv_cache,
                   in_setup_venv, saved_build_envs, wheel_cache, channels, ncalls>>

\* (a provisioner that broadcasts without storing the environment first)
venv_cache_insert_skipped(t) ==
    /\ task[t].pc = "venv_insert"
    /\ venv_cache_lock' = 0
    /\ task' = [task EXCEPT ![t].pc = "send"]
    /\ UNCHANGED <<extractor, readers, config, in_setup_venv_lock, saved_build_envs_lock,
                   venv_cache, in_setup_venv, saved_build_envs, wheel_cache,
                   channels, envs, ncalls>>

\* .insert(sdist.artifact_name(), build_environment.clone())
venv_cache_insert(t) ==
    /\ task[t].pc = "venv_insert"
    /\ venv_cache' = [venv_cache EXCEPT ![task[t].name] = task[t].env]
    /\ venv_cache_lock' = 0
    /\ task' = [task EXCEPT ![t].pc = "send"]
    /\ UNCHANGED <<extractor, readers, config, in_setup_venv_lock, saved_build_envs_lock,
                   in_setup_venv, saved_build_envs, wheel_cache, channels, envs,
                   ncalls>>

\* let _ = tx.send(Some(build_environment.clone()))
send_some(t) ==
    /\ task[t].pc = "send"
    /\ LET l == task[t]
           v == Some(l.env) IN
       /\ channels' = [channels EXCEPT ![l.tx].sent = v]
       /\ task' = [send(t, l.tx, v) EXCEPT ![t].pc = "return_ok"]
    /\ UNCHANGED <<extractor, readers, config, locks, venv_cache, in_setup_venv, saved_build_envs,
                   wheel_cache, envs, ncalls>>

\* Ok(build_environment): tx goes out of scope as the function returns
return_ok(t) ==
    /\ task[t].pc = "return_ok"
    /\ channels' = [drop_sender(task[t].tx) EXCEPT ![task[t].tx].end = "returned"]
    /\ task' = [task EXCEPT ![t] = setup_returns_ok(@, @.env)]
    /\ UNCHANGED <<extractor, readers, config, locks, venv_cache, in_setup_venv, saved_build_envs,
                   wheel_cache, envs, ncalls>>

\* future().await returns Err(e): let _ = tx.send(None)
setup_fails(t) ==
    /\ task[t].pc = "provision"
    /\ LET l == task[t] IN
       /\ channels' = [channels EXCEPT ![l.tx].sent = None]
       /\ task' = [send(t, l.tx, None) EXCEPT ![t].pc = "return_err"]
    /\ UNCHANGED <<extractor, readers, config, locks, venv_cache, in_setup_venv, saved_build_envs,
                   wheel_cache, envs, ncalls>>

\* Err(e): tx goes out of scope as the function returns
return_err(t) ==
    /\ task[t].pc = "return_err"
    /\ channels' = [drop_sender(task[t].tx) EXCEPT ![task[t].tx].end = "returned"]
    /\ task' = [task EXCEPT ![t] = setup_returns_err(@, "err_setup")]
    /\ UNCHANGED <<extractor, readers, config, locks, venv_cache, in_setup_venv, saved_build_envs,
                   wheel_cache, envs, ncalls>>

\* future().await panics: unwinding drops tx without a send and ends the task
setup_panics(t) ==
    /\ task[t].pc = "provision"
    /\ channels' = [drop_sender(task[t].tx) EXCEPT ![task[t].tx].end = "panicked"]
    /\ task' = [task EXCEPT ![t] = [@ EXCEPT !.result = "panicked",
                                             !.nested = FALSE, !.pc = "idle",
                                             !.tx = 0, !.env = 0, !.code = 0,
                                             !.outer_env = 0]]
    /\ UNCHANGED <<extractor, readers, config, locks, venv_cache, in_setup_venv, saved_build_envs,
                   wheel_cache, envs, ncalls>>

\* (a cancellation that is turned into a provisioning failure: None is
\* broadcast before the sender goes away)
cancel_broadcasts_none(t) ==
    /\ task[t].pc \in {"recv", "provision"}
    /\ channels' = IF task[t].pc = "provision"
                   THEN [drop_sender(task[t].tx)
                            EXCEPT ![task[t].tx].end = "cancelled",
                                   ![task[t].tx].sent = None]
                   ELSE [channels EXCEPT ![task[t].rx].rx_cancelled = TRUE]
    /\ LET others == IF task[t].pc = "provision"
                     THEN send(t, task[t].tx, None) ELSE task IN
       task' = [others EXCEPT ![t] = [@ EXCEPT !.result = "cancelled",
                                               !.nested = FALSE, !.pc = "idle",
                                               !.tx = 0, !.rx = 0,
                                               !.rx_val = Empty, !.env = 0,
                                               !.code = 0, !.outer_env = 0]]
    /\ UNCHANGED <<extractor, readers, config, locks, venv_cache, in_setup_venv, saved_build_envs,
                   wheel_cache, envs, ncalls>>

\* the caller's future is dropped while suspended at rx.recv().await or at
\* future().await: its locals (rx, or tx without a send) are dropped with it
cancel(t) ==
    /\ task[t].pc \in {"recv", "provision"}
    /\ channels' = IF task[t].pc = "provision"
                   THEN [drop_sender(task[t].tx)
                            EXCEPT ![task[t].tx].end = "cancelled"]
                   ELSE [channels EXCEPT ![task[t].rx].rx_cancelled = TRUE]
    /\ task' = [task EXCEPT ![t] = [@ EXCEPT !.result = "cancelled",
                                             !.nested = FALSE, !.pc = "idle",
                                             !.tx = 0, !.rx = 0,
                                             !.rx_val = Empty, !.env = 0,
                                             !.code = 0, !.outer_env = 0]]
    /\ UNCHANGED <<extractor, readers, config, locks, venv_cache, in_setup_venv, saved_build_envs,
                   wheel_cache, envs, ncalls>>

\* --------------------------------------------------------- the two phases
MetaOutcomes == {"ok", "exit50", "exit_fail", "read_fail"}
WheelOutcomes == {"ok", "exit50", "exit_fail", "post_fail", "from_path_fail"}

\* output.status.code() == Some(50): the backend cannot generate metadata
MetadataUnsupported == 50

\* output.status.code() of an outcome; 1 stands for every other failure
exit_code(out) ==
    IF out = "exit50" THEN MetadataUnsupported
    ELSE IF out = "exit_fail" THEN 1 ELSE 0

\* (a backend whose exit code 50 is a failure like any other)
metadata_unsupported_never(code) == FALSE

\* output.status.code() == Some(50) in get_sdist_metadata_internal
metadata_unsupported(code) == code = MetadataUnsupported

\* (a build that never stores its wheel)
associates_never(out) == FALSE

\* (a build that stores a wheel whatever the backend's exit status)
associates_always(out) == TRUE

\* the outcomes of build_wheel_internal that reach associate_wheel
associates(out) == out \in {"ok", "from_path_fail"}

\* get_sdist_metadata_internal: run_command("WheelMetadata") ends.  Exit code
\* 50 calls build_wheel, which starts with its own lookup in the wheel cache;
\* any other failure is the stderr of the backend, or an I/O / parse error
get_sdist_metadata_internal(t, out, meta_ok) ==
    /\ task[t].pc = "run_meta"
    /\ LET l == task[t] IN
       task' = [task EXCEPT ![t] =
           IF exit_code(out) = 0
           THEN [l EXCEPT !.result = IF out = "ok" THEN "ok" ELSE "err_other",
                          !.pc = "handle_failure"]
           ELSE IF ~metadata_unsupported(exit_code(out))
           THEN [l EXCEPT !.result = "err_build", !.code = exit_code(out),
                          !.pc = "handle_failure"]
           ELSE IF local_wheel_hit(l.name)
           THEN [l EXCEPT !.result = IF meta_ok THEN "ok" ELSE "err_parse",
                          !.code = exit_code(out), !.pc = "handle_failure"]
           ELSE [l EXCEPT !.nested = TRUE, !.outer_env = l.env, !.env = 0,
                          !.code = exit_code(out), !.pc = "venv_lock"]]
    /\ UNCHANGED <<extractor, readers, config, locks, venv_cache, in_setup_venv, saved_build_envs,
                   wheel_cache, channels, envs, ncalls>>

\* (a build that starts over from setup_build_venv when the backend fails)
build_wheel_internal_retries(t, out) ==
    /\ task[t].pc = "run_wheel"
    /\ LET l == task[t] IN
       /\ wheel_cache' = IF associates(out)
                         THEN associate_wheel(wheel_cache,
                                              from_sdist(l.name, python_version))
                         ELSE wheel_cache
       /\ task' = [task EXCEPT ![t] =
              IF exit_code(out) # 0
              THEN [l EXCEPT !.code = exit_code(out), !.pc = "run_wheel"]
              ELSE [l EXCEPT !.result = IF out = "ok" THEN "ok" ELSE "err_other",
                             !.code = exit_code(out),
                             !.pc = "handle_failure"]]
    /\ UNCHANGED <<extractor, readers, config, locks, venv_cache, in_setup_venv, saved_build_envs,
                   channels, envs, ncalls>>

\* build_wheel_internal: run_command("Wheel") ends.  A non-zero exit is the
\* stderr of the backend; reading wheel_result, parsing the file name or
\* associate_wheel may fail; Wheel::from_path may fail after the association
build_wheel_internal(t, out) ==
    /\ task[t].pc = "run_wheel"
    /\ LET l == task[t] IN
       /\ wheel_cache' = IF associates(out)
                         THEN associate_wheel(wheel_cache,
                                              from_sdist(l.name, python_version))
                         ELSE wheel_cache
       /\ task' = [task EXCEPT ![t] =
              [l EXCEPT !.result = IF exit_code(out) # 0 THEN "err_build"
                                   ELSE IF out = "ok" THEN "ok"
                                   ELSE "err_other",
                        !.code = exit_code(out),
                        !.pc = "handle_failure"]]
    /\ UNCHANGED <<extractor, readers, config, locks, venv_cache, in_setup_venv, saved_build_envs,
                   channels, envs, ncalls>>

\* ---------------------------------------------------- handle_build_failure
\* the result of handle_build_failure is returned: by the nested build_wheel
\* to get_sdist_metadata_internal (which reads the wheel's metadata, or
\* passes the error on with `?`), otherwise to the caller
returns(l, meta_ok) ==
    IF l.nested
    THEN [l EXCEPT !.nested = FALSE, !.env = l.outer_env, !.outer_env = 0,
                   !.code = 0,
                   !.result = IF l.result # "ok" THEN l.result
                              ELSE IF meta_ok THEN "ok" ELSE "err_parse",
                   !.pc = "handle_failure"]
    ELSE [l EXCEPT !.env = 0, !.code = 0, !.pc = "idle"]

\* (a coordinator that keeps the environment of every failed build, whatever
\* the policy)
handle_build_failure_keeps_all(t, meta_ok) ==
    /\ task[t].pc = "handle_failure"
    /\ LET l == task[t] IN
       IF l.result = "ok"
       THEN /\ task' = [task EXCEPT ![t] = returns(l, meta_ok)]
            /\ UNCHANGED <<envs, saved_build_envs_lock>>
       ELSE /\ saved_build_envs_lock = 0
            /\ saved_build_envs_lock' = t
            /\ envs' = [envs EXCEPT ![l.env].persisted = TRUE]
            /\ task' = [task EXCEPT ![t].pc = "save_insert"]
    /\ UNCHANGED <<extractor, readers, config, venv_cache_lock, in_setup_venv_lock, venv_cache,
                   in_setup_venv, saved_build_envs, wheel_cache, channels, ncalls>>

\* handle_build_failure: unless the policy is SaveBuildEnv and the result is
\* an error the result is passed through; otherwise the build environment is
\* persisted and self.saved_build_envs.lock() is taken
handle_build_failure(t, meta_ok) ==
    /\ task[t].pc = "handle_failure"
    /\ LET l == task[t] IN
       IF on_wheel_build_failure # "SaveBuildEnv" \/ l.result = "ok"
       THEN /\ task' = [task EXCEPT ![t] = returns(l, meta_ok)]
            /\ UNCHANGED <<envs, saved_build_envs_lock>>
       ELSE /\ saved_build_envs_lock = 0
            /\ saved_build_envs_lock' = t
            /\ envs' = [envs EXCEPT ![l.env].persisted = TRUE]
            /\ task' = [task EXCEPT ![t].pc = "save_insert"]
    /\ UNCHANGED <<extractor, readers, config, venv_cache_lock, in_setup_venv_lock, venv_cache,
                   in_setup_venv, saved_build_envs, wheel_cache, channels, ncalls>>

\* (a coordinator that persists the environment but forgets its path)
save_build_env_forgets(t) ==
    /\ task[t].pc = "save_insert"
    /\ saved_build_envs_lock' = 0
    /\ task' = [task EXCEPT ![t] = returns(@, TRUE)]
    /\ UNCHANGED <<extractor, readers, config, venv_cache_lock, in_setup_venv_lock, venv_cache,
                   in_setup_venv, saved_build_envs, wheel_cache, channels,
                   envs, ncalls>>

\* .insert(build_environment.work_dir()); Err(e)
save_build_env(t) ==
    /\ task[t].pc = "save_insert"
    /\ saved_build_envs' = saved_build_envs \cup {task[t].env}
    /\ saved_build_envs_lock' = 0
    /\ task' = [task EXCEPT ![t] = returns(@, TRUE)]
    /\ UNCHANGED <<extractor, readers, config, venv_cache_lock, in_setup_venv_lock, venv_cache,
                   in_setup_venv, wheel_cache, channels, envs, ncalls>>

\* ------------------------------------------------------------ specification
Next ==
    \E t \in Tasks :
        \/ \E n \in Names : build_wheel(t, n)
        \/ \E n \in Names, m \in BOOLEAN : get_sdist_metadata(t, n, m)
        \/ \E n \in Names, v \in Versions : lookup_wheel(t, n, v)
        \/ lock_venv_cache(t)
        \/ venv_cache_get(t)
        \/ lock_in_setup_venv(t)
        \/ check_in_flight(t)
        \/ recv(t)
        \/ setup_succeeds(t)
        \/ venv_cache_insert(t)
        \/ send_some(t)
        \/ return_ok(t)
        \/ setup_fails(t)
        \/ return_err(t)
        \/ setup_panics(t)
        \/ cancel(t)
        \/ \E o \in MetaOutcomes, m \in BOOLEAN : get_sdist_metadata_internal(t, o, m)
        \/ \E o \in WheelOutcomes : build_wheel_internal(t, o)
        \/ \E m \in BOOLEAN : handle_build_failure(t, m)
        \/ save_build_env(t)

Spec == Init /\ [][Next]_vars

\* ------------------------------------- setup_build_venv for one source
\* Repeated build_wheel calls for a single sdist under the default policy:
\* fewer inputs than Spec, more calls per task.
SetupInit == Init /\ on_wheel_build_failure = "DeleteBuildEnv"

SetupNext ==
    \E t \in Tasks :
        \/ build_wheel_of(t, "rich", MaxSetupCalls)
        \/ lock_venv_cache(t)
        \/ venv_cache_get(t)
        \/ lock_in_setup_venv(t)
        \/ check_in_flight(t)
        \/ recv(t)
        \/ setup_succeeds(t)
        \/ venv_cache_insert(t)
        \/ send_some(t)
        \/ return_ok(t)
        \/ setup_fails(t)
        \/ return_err(t)
        \/ setup_panics(t)
        \/ cancel(t)
        \/ \E o \in WheelOutcomes : build_wheel_internal(t, o)
        \/ handle_build_failure(t, TRUE)

SetupSpec == SetupInit /\ [][SetupNext]_vars

\* ------------------------------------------- setup_build_venv, scheduled
\* The calls of SetupSpec on a runtime that keeps polling: a task whose
\* rx.recv() is ready is resumed, the future of a provisioner ends (with Ok,
\* Err, a panic or by being dropped), and the synchronous code after it runs
\* to its return.  Nothing obliges a caller to start a call, and a mutex is
\* only ever held over synchronous code.
provisioner_ends(t) ==
    \/ setup_succeeds(t)
    \/ setup_fails(t)
    \/ setup_panics(t)
    \/ task[t].pc = "provision" /\ cancel(t)

Scheduling ==
    \A t \in Tasks :
        /\ WF_vars(recv(t))
        /\ WF_vars(provisioner_ends(t))
        /\ WF_vars(venv_cache_get(t))
        /\ WF_vars(venv_cache_insert(t))
        /\ WF_vars(send_some(t))
        /\ WF_vars(return_ok(t))
        /\ WF_vars(return_err(t))

ScheduledSetupSpec == SetupSpec /\ Scheduling

\* ------------------------------------------------- extract_zip_archive
\* zip entries per archive, invocations of extract_zip_archive, cache
\* directories
MaxEntries == 2
NumExtracts == 2
NumCaches == 2

Extracts == 1..NumExtracts
Caches == 1..NumCaches

\* the state of the WheelBuilder, which no extractor step touches
builder == <<python_version, on_wheel_build_failure, venv_cache, in_setup_venv,
             saved_build_envs, wheel_cache, venv_cache_lock,
             in_setup_venv_lock, saved_build_envs_lock, channels, envs, task,
             ncalls>>

\* an entry name: its path components ("/" is a root, ".." a parent
\* component), whether it ends in a slash, whether it is valid UTF-8
EntryName(comps, slash, utf8) ==
    [components |-> comps, slash |-> slash, utf8 |-> utf8]

FileNames == {EntryName(<<"a">>, FALSE, TRUE), EntryName(<<"d">>, FALSE, TRUE)}
DirNames == {EntryName(<<"d">>, TRUE, TRUE)}
BadNames == {EntryName(<<"..", "a">>, FALSE, TRUE),
             EntryName(<<"/", "a">>, FALSE, TRUE),
             EntryName(<<"a">>, FALSE, FALSE)}

\* file contents (byte strings) and entry.unix_mode()
Data == {<<1>>, <<1, 2>>}
Modes == {"None", "Some(0o644)"}

\* the entries a zip stream is made of; header = FALSE is a local file
\* header that read_zipfile_from_stream cannot parse
ZipEntries ==
    {[name |-> n, data |-> d, mode |-> m, header |-> TRUE] :
        n \in FileNames, d \in Data, m \in Modes}
    \cup {[name |-> n, data |-> <<>>, mode |-> "None", header |-> TRUE] :
        n \in DirNames \cup BadNames}
    \cup {[name |-> n, data |-> <<>>, mode |-> "None", header |-> FALSE] :
        n \in DirNames}

Archives == UNION {[1..k -> ZipEntries] : k \in 0..MaxEntries}

\* ZipFile::enclosed_name: no root component, and no parent component that
\* leaves the archive root (the value is the depth reached, -1 for None)
RECURSIVE enclosed_depth(_, _)
enclosed_depth(comps, depth) ==
    IF comps = <<>> THEN depth
    ELSE IF Head(comps) = "/" THEN -1
    ELSE IF Head(comps) = ".."
    THEN IF depth = 0 THEN -1 ELSE enclosed_depth(Tail(comps), depth - 1)
    ELSE enclosed_depth(Tail(comps), depth + 1)

\* (a reader that takes every name for a path inside the archive)
enclosed_name_any(n) == TRUE

enclosed_name(n) == enclosed_depth(n.components, 0) >= 0

\* (a reader for which no entry is a directory)
is_dir_never(n) == FALSE

\* ZipFile::is_dir: the name ends in a slash; is_file is its negation
is_dir(n) == n.slash

\* Algorithm::Xxh3 over the bytes written, as a small polynomial hash
RECURSIVE Xxh3(_)
Xxh3(bytes) ==
    IF bytes = <<>> THEN 17
    ELSE (Xxh3(SubSeq(bytes, 1, Len(bytes) - 1)) * 31 + bytes[Len(bytes)]) % 251

\* the Integrity of written bytes, and integrity.to_string()
integrity(bytes) == [algorithm |-> "xxh3", digest |-> Xxh3(bytes)]
to_string(sri) == <<sri.algorithm, sri.digest>>

\* (a store that keeps every written file as a blob of its own)
commit_keeps_duplicates(blobs, bytes) ==
    blobs \cup {[integrity |-> integrity(bytes), data |-> bytes,
                 copy |-> Cardinality(blobs)]}

\* (a store that loses what is committed)
commit_discards(blobs, bytes) == blobs

\* writer.commit(): the written file is moved to the path derived from its
\* integrity; a blob that is already there is the same blob
commit(blobs, bytes) ==
    blobs \cup {[integrity |-> integrity(bytes), data |-> bytes]}

\* CachedArchiveEntryData: the two fields of the entry of a file
CachedArchiveEntryData(content, mode) == [content |-> content, mode |-> mode]

\* CachedArchiveData with nothing in it
EmptyArchive == [files |-> [k \in {} |-> 0], links |-> [k \in {} |-> 0],
                 directories |-> <<>>]

\* HashMap::insert
insert(map, k, v) ==
    [x \in DOMAIN map \cup {k} |-> IF x = k THEN v ELSE map[x]]

\* the orders in which a HashMap may hand out its keys
Orders(map) ==
    {o \in [1..Cardinality(DOMAIN map) -> DOMAIN map] :
        \A i, j \in DOMAIN o : i # j => o[i] # o[j]}

\* (a serializer that leaves the links out)
from_unarchived_without_links(archive, order, link_order) ==
    [files |-> [i \in DOMAIN order |-> <<order[i], archive.files[order[i]]>>],
     links |-> <<>>,
     directories |-> archive.directories,
     root |-> TRUE]

\* CachedArchive::from_unarchived: the serialized bytes hold the entries of
\* files and of links in the order each HashMap was iterated in, the
\* directories, and at their end the root object
from_unarchived(archive, order, link_order) ==
    [files |-> [i \in DOMAIN order |-> <<order[i], archive.files[order[i]]>>],
     links |-> [i \in DOMAIN link_order |->
                   <<link_order[i], archive.links[link_order[i]]>>],
     directories |-> archive.directories,
     root |-> TRUE]

\* (a view that is the sequence of entries as serialized)
deref_raw(bytes) == bytes

\* Deref for CachedArchive: the archived maps, looked up by key
deref(bytes) ==
    [files |-> [k \in {bytes.files[i][1] : i \in DOMAIN bytes.files} |->
                   bytes.files[CHOOSE i \in DOMAIN bytes.files :
                                   bytes.files[i][1] = k][2]],
     links |-> [k \in {bytes.links[i][1] : i \in DOMAIN bytes.links} |->
                   bytes.links[CHOOSE i \in DOMAIN bytes.links :
                                   bytes.links[i][1] = k][2]],
     directories |-> bytes.directories]

\* PartialEq for CachedArchive
eq(a, b) == deref(a) = deref(b)

\* locals of an invocation that has not started
IdleExtract == [pc |-> "idle", cache |-> 0, pos |-> 1,
                archive |-> EmptyArchive, result |-> [kind |-> "none"]]

ExtractInit ==
    /\ WheelBuilderInit
    /\ on_wheel_build_failure = "DeleteBuildEnv"
    /\ archive_bytes \in Archives
    /\ store = [c \in Caches |-> {}]
    /\ extract = [i \in Extracts |-> IdleExtract]
    /\ codec = <<>>
    /\ wheel = <<>>
    /\ prefetch = <<>>
    /\ egg = <<>>

\* extract_zip_archive(cache, archive_bytes) is called: an empty
\* CachedArchiveData, the reader at the start of the stream
extract_zip_archive(i, c) ==
    /\ extract[i].pc = "idle"
    /\ extract' = [extract EXCEPT ![i] = [@ EXCEPT !.pc = "read", !.cache = c]]
    /\ UNCHANGED <<builder, readers, archive_bytes, store>>

\* (an extraction that notes the error, skips the entry and reads on)
fails_and_reads_on(x, e) ==
    [x EXCEPT !.pos = @ + 1, !.result = [kind |-> "Err", error |-> e]]

\* the invocation returns Err(e)
fails(x, e) == [x EXCEPT !.pc = "done", !.result = [kind |-> "Err", error |-> e]]

\* one turn of the loop over read_zipfile_from_stream: the header and the
\* name are checked, a directory is pushed, a file is written to the cache
\* (io_ok: opening the writer, the copy and the commit succeed), committed
\* and inserted
read_zipfile_from_stream(i, io_ok) ==
    /\ extract[i].pc = "read"
    /\ extract[i].pos <= Len(archive_bytes)
    /\ LET x == extract[i]
           entry == archive_bytes[x.pos]
           path == entry.name
       IN
       IF ~entry.header
       THEN /\ extract' = [extract EXCEPT ![i] = fails(x, <<"Zip">>)]
            /\ UNCHANGED store
       ELSE IF ~enclosed_name(path)
       THEN /\ extract' = [extract EXCEPT ![i] =
                              fails(x, <<"InvalidEntry", path, "is not a valid path">>)]
            /\ UNCHANGED store
       ELSE IF ~path.utf8
       THEN /\ extract' = [extract EXCEPT ![i] =
                              fails(x, <<"InvalidEntry", path,
                                         "is not a valid utf-8 path">>)]
            /\ UNCHANGED store
       ELSE IF is_dir(path)
       THEN /\ extract' = [extract EXCEPT
                              ![i].archive.directories = Append(@, path),
                              ![i].pos = @ + 1]
            /\ UNCHANGED store
       ELSE IF ~io_ok
       THEN /\ extract' = [extract EXCEPT ![i] = fails(x, <<"CacheError", path>>)]
            /\ UNCHANGED store
       ELSE /\ store' = [store EXCEPT ![x.cache] = commit(@, entry.data)]
            /\ extract' = [extract EXCEPT
                              ![i].archive.files =
                                  insert(@, path,
                                         CachedArchiveEntryData(
                                             to_string(integrity(entry.data)),
                                             entry.mode)),
                              ![i].pos = @ + 1]
    /\ UNCHANGED <<builder, readers, archive_bytes>>

\* read_zipfile_from_stream returns Ok(None): the archive is serialized,
\* its HashMap iterated in some order, and returned
end_of_stream(i) ==
    /\ extract[i].pc = "read"
    /\ extract[i].pos > Len(archive_bytes)
    /\ \E order \in Orders(extract[i].archive.files),
          link_order \in Orders(extract[i].archive.links) :
          extract' = [extract EXCEPT ![i] =
              [@ EXCEPT !.pc = "done",
                        !.result = [kind |-> "Ok",
                                    archive |-> from_unarchived(extract[i].archive,
                                                                order, link_order)]]]
    /\ UNCHANGED <<builder, readers, archive_bytes, store>>

ExtractNext ==
    \E i \in Extracts :
        \/ \E c \in Caches : extract_zip_archive(i, c)
        \/ \E io_ok \in BOOLEAN : read_zipfile_from_stream(i, io_ok)
        \/ end_of_stream(i)

ExtractSpec == ExtractInit /\ [][ExtractNext]_vars

\* --------------------------------------------------- the CachedArchive codec
\* entries of the directories of a CachedArchiveData
MaxDirectories == 2

LinkNames == {EntryName(<<"l">>, FALSE, TRUE), EntryName(<<"m">>, FALSE, TRUE)}
EntryDatas ==
    {CachedArchiveEntryData(to_string(integrity(d)), m) : d \in Data, m \in Modes}

\* the HashMaps with keys in K and values in V
HashMaps(K, V) == UNION {[S -> V] : S \in SUBSET K}

CachedArchiveDatas ==
    [files : HashMaps(FileNames, EntryDatas),
     links : HashMaps(LinkNames, FileNames),
     directories : UNION {[1..k -> DirNames] : k \in 0..MaxDirectories}]

\* check_archived_root::<CachedArchiveData>: the root object is where the
\* end of the buffer says it is, and what it points to is inside the buffer
check_archived_root(bytes) == bytes.root

\* CachedArchive::new
new(bytes) ==
    IF check_archived_root(bytes)
    THEN [kind |-> "Ok", archive |-> bytes]
    ELSE [kind |-> "Err", error |-> <<"ArchiveRead">>]

\* the HashMap collected from archived entries, one insert per entry
RECURSIVE collect(_, _)
collect(entries, map) ==
    IF entries = <<>> THEN map
    ELSE collect(Tail(entries), insert(map, Head(entries)[1], Head(entries)[2]))

\* CachedArchive::deserialize: every archived field is deserialized
deserialize(bytes) ==
    [files |-> collect(bytes.files, EmptyArchive.files),
     links |-> collect(bytes.links, EmptyArchive.links),
     directories |-> bytes.directories]

\* a write that failed half way: the end of the buffer, and the root object
\* with it, is not in the file
cut_short(bytes) == [bytes EXCEPT !.root = FALSE]

CodecInit ==
    /\ WheelBuilderInit
    /\ on_wheel_build_failure = "DeleteBuildEnv"
    /\ archive_bytes = <<>>
    /\ store = <<>>
    /\ extract = <<>>
    /\ \E data \in CachedArchiveDatas :
          codec = [pc |-> "data", data |-> data, archive |-> <<>>, file |-> <<>>,
                   result |-> [kind |-> "none"], out |-> <<>>]
    /\ wheel = <<>>
    /\ prefetch = <<>>
    /\ egg = <<>>

\* CachedArchive::from_unarchived(&data)
call_from_unarchived ==
    /\ codec.pc = "data"
    /\ \E order \in Orders(codec.data.files),
          link_order \in Orders(codec.data.links) :
          codec' = [codec EXCEPT
                       !.pc = "archive",
                       !.archive = from_unarchived(codec.data, order, link_order)]
    /\ UNCHANGED <<builder, extractor, wheel, prefetch, egg>>

\* CachedArchive::write(&archive, file): write_all puts all of the bytes in
\* the file, or fails with part of them written
write(io_ok) ==
    /\ codec.pc = "archive"
    /\ codec' = [codec EXCEPT
                    !.pc = "file",
                    !.file = IF io_ok THEN codec.archive ELSE cut_short(codec.archive)]
    /\ UNCHANGED <<builder, extractor, wheel, prefetch, egg>>

\* CachedArchive::from_reader(file): the file is read to its end and the
\* bytes go through CachedArchive::new
from_reader(io_ok) ==
    /\ codec.pc = "file"
    /\ codec' = [codec EXCEPT
                    !.pc = "read",
                    !.result = IF io_ok THEN new(codec.file)
                               ELSE [kind |-> "Err", error |-> <<"IoError">>]]
    /\ UNCHANGED <<builder, extractor, wheel, prefetch, egg>>

\* CachedArchive::deserialize(&archive) of the archive that was read
call_deserialize ==
    /\ codec.pc = "read"
    /\ codec.result.kind = "Ok"
    /\ codec' = [codec EXCEPT !.pc = "deserialized",
                              !.out = deserialize(codec.result.archive)]
    /\ UNCHANGED <<builder, extractor, wheel, prefetch, egg>>

CodecNext ==
    \/ call_from_unarchived
    \/ \E io_ok \in BOOLEAN : write(io_ok)
    \/ \E io_ok \in BOOLEAN : from_reader(io_ok)
    \/ call_deserialize

CodecSpec == CodecInit /\ [][CodecNext]_vars

\* ------------------------------------------------- the metadata of a wheel
\* members of a wheel archive
MaxMembers == 2

\* a string is the sequence of the pieces that the code takes it apart into.
\* The distribution names and versions that occur in member names and in
\* METADATA files:
NameTokens == {"rich", "Rich", "other"}
VersionTokens == {"1.0", "1.0.0", "2.0", "x"}

\* Option<T>: <<>> is None, <<v>> is Some(v)
Ok(v) == [kind |-> "Ok", value |-> v]
Err(e) == [kind |-> "Err", error |-> e]

\* PackageName: the string it was parsed from and its normalized form
normalized(s) == IF s = "Rich" THEN "rich" ELSE s

\* PackageName::from_str
PackageName_from_str(s) ==
    IF Len(s) = 1 /\ s[1] \in NameTokens
    THEN <<[source |-> s[1], normalized |-> normalized(s[1])]>>
    ELSE <<>>

\* PartialEq for PackageName: the normalized forms are compared
name_eq(a, b) == a.normalized = b.normalized

\* Version::from_str: the release of a version, trailing zeros dropped
\* ("x" is not a version)
Version_from_str(s) ==
    IF Len(s) # 1 THEN <<>>
    ELSE IF s[1] \in {"1.0", "1.0.0"} THEN << <<1>> >>
    ELSE IF s[1] = "2.0" THEN << <<2>> >>
    ELSE <<>>

\* str::split_once, str::rsplit_once, str::strip_suffix, str::ends_with
split_once(s, pat) ==
    LET hits == {i \in DOMAIN s : s[i] \in pat}
    IN  IF hits = {} THEN <<>>
        ELSE LET i == CHOOSE i \in hits : \A j \in hits : i <= j
             IN  << <<SubSeq(s, 1, i - 1), SubSeq(s, i + 1, Len(s))>> >>

rsplit_once(s, pat) ==
    LET hits == {i \in DOMAIN s : s[i] \in pat}
    IN  IF hits = {} THEN <<>>
        ELSE LET i == CHOOSE i \in hits : \A j \in hits : i >= j
             IN  << <<SubSeq(s, 1, i - 1), SubSeq(s, i + 1, Len(s))>> >>

strip_suffix(s, suffix) ==
    IF s # <<>> /\ s[Len(s)] = suffix THEN <<SubSeq(s, 1, Len(s) - 1)>> ELSE <<>>

ends_with(s, suffix) == s # <<>> /\ s[Len(s)] = suffix

\* (a filter that takes the METADATA of every dist-info directory)
filter_any_dist_info(wheel_name, path) ==
    LET sp == split_once(path, {"/", "\\"})
    IN  IF sp = <<>> THEN <<>>
        ELSE IF sp[1][2] # <<"METADATA">> THEN <<>>
        ELSE strip_suffix(sp[1][1], ".dist-info")

\* the closure of find_dist_info: the dir_stem of a path that is the
\* METADATA of the dist-info directory of wheel_name, None for other paths
filter_dist_info(wheel_name, path) ==
    LET sp == split_once(path, {"/", "\\"})
    IN  IF sp = <<>> THEN <<>>
        ELSE
        LET dir_name == sp[1][1]
            rest == sp[1][2]
            st == strip_suffix(dir_name, ".dist-info")
        IN  IF st = <<>> THEN <<>>
            ELSE
            LET dir_stem == st[1]
                nv == rsplit_once(dir_stem, {"-"})
            IN  IF nv = <<>> THEN <<>>
                ELSE
                LET name == PackageName_from_str(nv[1][1])
                    version == Version_from_str(nv[1][2])
                IN  IF name = <<>> THEN <<>>
                    ELSE IF ~name_eq(name[1], wheel_name.distribution) THEN <<>>
                    ELSE IF version = <<>> THEN <<>>
                    ELSE IF version[1] = wheel_name.version /\ rest = <<"METADATA">>
                    THEN <<dir_stem>>
                    ELSE <<>>

\* Iterator::filter_map with that closure
RECURSIVE filter_map(_, _)
filter_map(wheel_name, files) ==
    IF files = <<>> THEN <<>>
    ELSE filter_dist_info(wheel_name, Head(files))
         \o filter_map(wheel_name, Tail(files))

\* (a lookup that settles for the first dist-info directory it finds)
find_dist_info_first(wheel_name, files) ==
    LET dist_infos == filter_map(wheel_name, files)
    IN  IF Len(dist_infos) >= 1 THEN Ok(dist_infos[1])
        ELSE Err(<<"DistInfoMissing">>)

\* find_dist_info: the first two items of the filtered paths decide
find_dist_info(wheel_name, files) ==
    LET dist_infos == filter_map(wheel_name, files)
    IN  IF Len(dist_infos) = 1 THEN Ok(dist_infos[1])
        ELSE IF Len(dist_infos) >= 2
        THEN Err(<<"MultipleSpecialDirs", "dist-info">>)
        ELSE Err(<<"DistInfoMissing">>)

\* (a conversion for which a missing file is a plain zip error)
from_zip_plain(file, err) ==
    IF err = "Io" THEN <<"IoError">> ELSE <<"ZipError", file>>

\* WheelVitalsError::from_zip
from_zip(file, err) ==
    IF err = "Io" THEN <<"IoError">>
    ELSE IF err = "FileNotFound"
    THEN IF ends_with(file, "WHEEL") THEN <<"WheelMissing">>
         ELSE IF ends_with(file, "METADATA") THEN <<"MetadataMissing">>
         ELSE <<"ZipError", file>>
    ELSE <<"ZipError", file>>

\* WheelVitalsError::from_async_zip
from_async_zip(file, err) ==
    IF err = "UpstreamReadError" THEN <<"IoError">> ELSE <<"AsyncZipError", file>>

\* format!("{dist_info_prefix}.dist-info/METADATA")
metadata_path(dist_info_prefix) ==
    dist_info_prefix \o <<".dist-info", "/", "METADATA">>

\* the positions of the members of an archive that have a name
indices(archive, name) == {i \in DOMAIN archive : archive[i].name = name}

\* read_entry_to_end: by_name finds the member or fails with FileNotFound;
\* opening and reading it may fail (io)
read_entry_to_end(archive, name, io) ==
    IF indices(archive, name) = {} THEN Err(from_zip(name, "FileNotFound"))
    ELSE IF io = "zip_error" THEN Err(from_zip(name, "UnsupportedArchive"))
    ELSE IF io = "io_error" THEN Err(<<"IoError">>)
    ELSE Ok(archive[CHOOSE i \in indices(archive, name) : TRUE].data)

\* the bytes of a METADATA file with a Name and a Version header, and bytes
\* that are no METADATA file
Blob(name, version) == << <<"Name", name>>, <<"Version", version>> >>
Garbage == << <<"garbage">> >>

\* WheelCoreMetadata::try_from(bytes): the headers are parsed, Name and
\* Version are read from them
try_from(blob) ==
    IF Len(blob) # 2 \/ blob[1][1] # "Name" \/ blob[2][1] # "Version"
    THEN Err(<<"InvalidMetadata", "FailedToParse", "syntax">>)
    ELSE LET name == PackageName_from_str(<<blob[1][2]>>)
             version == Version_from_str(<<blob[2][2]>>)
         IN  IF name = <<>> THEN Err(<<"InvalidMetadata", "InvalidPackageName">>)
             ELSE IF version = <<>> THEN Err(<<"InvalidMetadata", "InvalidVersion">>)
             ELSE Ok([name |-> name[1], version |-> version[1]])

\* (a verification that looks at the name only)
verify_name_only(metadata, name) ==
    IF ~name_eq(metadata.name, name.distribution)
    THEN <<"InvalidMetadata", "FailedToParse", "name mismatch">>
    ELSE <<>>

\* "Verify the contents of the METADATA": the error of the first check that
\* fails, <<>> when both pass
verify(metadata, name) ==
    IF ~name_eq(metadata.name, name.distribution)
    THEN <<"InvalidMetadata", "FailedToParse", "name mismatch">>
    ELSE IF metadata.version # name.version
    THEN <<"InvalidMetadata", "FailedToParse", "version mismatch">>
    ELSE <<>>

\* archive.file_names(), in the order of the archive
RECURSIVE file_names(_)
file_names(archive) ==
    IF archive = <<>> THEN <<>>
    ELSE <<Head(archive).name>> \o file_names(Tail(archive))

\* ArchivedWheel::metadata, given the order in which file_names hands out
\* the names
ArchivedWheel_metadata(name, archive, files, io) ==
    LET dist_info_prefix == find_dist_info(name, files)
    IN  IF dist_info_prefix.kind = "Err" THEN dist_info_prefix
        ELSE
        LET metadata_blob ==
                read_entry_to_end(archive, metadata_path(dist_info_prefix.value), io)
        IN  IF metadata_blob.kind = "Err" THEN metadata_blob
            ELSE
            LET metadata == try_from(metadata_blob.value)
            IN  IF metadata.kind = "Err" THEN metadata
                ELSE IF verify(metadata.value, name) # <<>>
                THEN Err(verify(metadata.value, name))
                ELSE Ok(<<metadata_blob.value, metadata.value>>)

\* ArchivedWheel::get_lazy_vitals: the central directory is read (io: the
\* reader cannot be constructed), the dist-info directory and the METADATA
\* entry are looked up, the entry is fetched and read (io), and parsed
get_lazy_vitals(name, stream, io) ==
    IF io = "open_io_error" THEN Err(from_async_zip(<<"/">>, "UpstreamReadError"))
    ELSE IF io = "open_zip_error" THEN Err(from_async_zip(<<"/">>, "UnableToLocateEOCDR"))
    ELSE
    LET dist_info_prefix == find_dist_info(name, file_names(stream))
    IN  IF dist_info_prefix.kind = "Err" THEN dist_info_prefix
        ELSE
        LET path == metadata_path(dist_info_prefix.value)
        IN  IF indices(stream, path) = {} THEN Err(<<"MetadataMissing">>)
            ELSE
            LET metadata_idx == CHOOSE i \in indices(stream, path) :
                                    \A j \in indices(stream, path) : i <= j
                contents == stream[metadata_idx].data
            IN  IF io = "io_error" THEN Err(from_async_zip(path, "UpstreamReadError"))
                ELSE IF io = "zip_error" THEN Err(from_async_zip(path, "CRC32CheckError"))
                ELSE
                LET metadata == try_from(contents)
                IN  IF metadata.kind = "Err" THEN metadata
                    ELSE Ok(<<contents, metadata.value>>)

\* IntoDiagnostic::into_diagnostic: the error becomes a miette report
into_diagnostic(result) ==
    IF result.kind = "Err" THEN Err(<<"Report">> \o result.error) ELSE result

\* the names of the members of the wheels
Path(name, version, suffix, sep, rest) == <<name, "-", version, suffix, sep, rest>>
MemberNames ==
    {Path("rich", "1.0", ".dist-info", "/", "METADATA"),
     Path("Rich", "1.0.0", ".dist-info", "/", "METADATA"),
     Path("rich", "1.0", ".dist-info", "\\", "METADATA"),
     Path("rich", "2.0", ".dist-info", "/", "METADATA"),
     Path("other", "1.0", ".dist-info", "/", "METADATA"),
     Path("rich", "x", ".dist-info", "/", "METADATA"),
     Path("rich", "1.0", ".data", "/", "METADATA"),
     Path("rich", "1.0", ".dist-info", "/", "WHEEL"),
     <<"rich", "/", "__init__.py">>}

Blobs == {Blob("rich", "1.0"), Blob("Rich", "1.0.0"), Blob("other", "1.0"),
          Blob("rich", "2.0"), Garbage}

Members ==
    {[name |-> n, data |-> b] :
        n \in {m \in MemberNames : ends_with(m, "METADATA")}, b \in Blobs}
    \cup {[name |-> n, data |-> <<>>] :
        n \in {m \in MemberNames : ~ends_with(m, "METADATA")}}

\* the archives: no two members of an archive have the same name
WheelArchives ==
    {a \in UNION {[1..k -> Members] : k \in 0..MaxMembers} :
        \A i, j \in DOMAIN a : i # j => a[i].name # a[j].name}

\* WheelFilename of rich-1.0-py3-none-any.whl and of
\* rich-2.0-py3-none-any.whl
WheelFilenames ==
    {[distribution |-> PackageName_from_str(<<"rich">>)[1],
      version |-> Version_from_str(<<v>>)[1]] : v \in {"1.0", "2.0"}}

LocalIo == {"ok", "io_error", "zip_error"}
RemoteIo == LocalIo \cup {"open_io_error", "open_zip_error"}

NotRead == [kind |-> "none"]

\* ArchivedWheel::from_bytes: the wheel of a filename over an archive
WheelInit ==
    /\ WheelBuilderInit
    /\ on_wheel_build_failure = "DeleteBuildEnv"
    /\ archive_bytes = <<>>
    /\ store = <<>>
    /\ extract = <<>>
    /\ codec = <<>>
    /\ prefetch = <<>>
    /\ egg = <<>>
    /\ \E name \in WheelFilenames, archive \in WheelArchives :
          wheel = [name |-> name, archive |-> archive,
                   local |-> NotRead, remote |-> NotRead]

\* wheel.metadata(): the whole function runs with the archive locked; the
\* names come out of the archive's name map in some order
metadata(io) ==
    /\ wheel.local = NotRead
    /\ \E files \in Orders([i \in DOMAIN wheel.archive |-> wheel.archive[i].name]) :
          wheel' = [wheel EXCEPT !.local =
                       ArchivedWheel_metadata(wheel.name, wheel.archive,
                           [i \in DOMAIN files |-> wheel.archive[files[i]].name], io)]
    /\ UNCHANGED <<builder, extractor, codec, prefetch, egg>>

\* ArchivedWheel::read_metadata_bytes(name, stream) over a stream that
\* serves the same archive
read_metadata_bytes(io) ==
    /\ wheel.remote = NotRead
    /\ wheel' = [wheel EXCEPT !.remote =
                    into_diagnostic(get_lazy_vitals(wheel.name, wheel.archive, io))]
    /\ UNCHANGED <<builder, extractor, codec, prefetch, egg>>

WheelNext ==
    \/ \E io \in LocalIo : metadata(io)
    \/ \E io \in RemoteIo : read_metadata_bytes(io)

WheelSpec == WheelInit /\ [][WheelNext]_vars

\* ------------------------------------------- the prefetches of a remote read
\* a u64 is its four 16-bit limbs, the least significant first
Limb == 2^16
U64(n) == <<n % Limb, (n \div Limb) % Limb, 0, 0>>
MaxU64 == <<Limb - 1, Limb - 1, Limb - 1, Limb - 1>>

\* const CENTRAL_DIRECTORY_SIZE, "Header size in bytes", let buffer_size
CENTRAL_DIRECTORY_SIZE == 16384
HeaderSize == 30
buffer_size == 8192

\* the limbs of a + b + carry, followed by the carry out of the last limb
RECURSIVE add_limbs(_, _, _)
add_limbs(a, b, carry) ==
    IF a = <<>> THEN <<carry>>
    ELSE LET sum == Head(a) + Head(b) + carry
         IN  <<sum % Limb>> \o add_limbs(Tail(a), Tail(b), sum \div Limb)

\* the limbs of a - b - borrow, followed by the borrow out of the last limb
RECURSIVE sub_limbs(_, _, _)
sub_limbs(a, b, borrow) ==
    IF a = <<>> THEN <<borrow>>
    ELSE LET diff == Head(a) - Head(b) - borrow
         IN  IF diff < 0
             THEN <<diff + Limb>> \o sub_limbs(Tail(a), Tail(b), 1)
             ELSE <<diff>> \o sub_limbs(Tail(a), Tail(b), 0)

\* the limbs of a * m + carry for a small m, followed by the carry out
RECURSIVE mul_limbs(_, _, _)
mul_limbs(a, m, carry) ==
    IF a = <<>> THEN <<carry>>
    ELSE LET prod == Head(a) * m + carry
         IN  <<prod % Limb>> \o mul_limbs(Tail(a), m, prod \div Limb)

\* long division by a small d: the remainder left by the limbs above limb i
RECURSIVE rem_above(_, _, _)
rem_above(a, d, i) ==
    IF i = Len(a) THEN 0
    ELSE (rem_above(a, d, i + 1) * Limb + a[i + 1]) % d

\* u64 arithmetic: the value in 64 bits and whether the exact result fits
add(a, b) ==
    LET r == add_limbs(a, b, 0)
    IN  [value |-> SubSeq(r, 1, 4), overflow |-> r[5] # 0]
sub(a, b) ==
    LET r == sub_limbs(a, b, 0)
    IN  [value |-> SubSeq(r, 1, 4), overflow |-> r[5] # 0]
mul(a, m) ==
    LET r == mul_limbs(a, m, 0)
    IN  [value |-> SubSeq(r, 1, 4), overflow |-> r[5] # 0]
div(a, d) == [i \in 1..4 |-> (rem_above(a, d, i) * Limb + a[i]) \div d]

\* u64::saturating_sub
saturating_sub(a, b) == IF sub(a, b).overflow THEN U64(0) ELSE sub(a, b).value

\* the size of the prefetch of an entry: compressed_size + 30 + the length
\* of the filename, then ((size + buffer_size - 1) / buffer_size) *
\* buffer_size, every operation in 64 bits; overflow tells whether one of
\* them left the range of a u64
entry_size(compressed_size, filename_len) ==
    LET s1 == add(compressed_size, U64(HeaderSize))
        s2 == add(s1.value, filename_len)
        s3 == add(s2.value, U64(buffer_size))
        s4 == sub(s3.value, U64(1))
        s5 == mul(div(s4.value, buffer_size), buffer_size)
    IN  [value |-> s5.value,
         overflow |-> s1.overflow \/ s2.overflow \/ s3.overflow \/ s4.overflow
                      \/ s5.overflow]

\* the lengths of streams, the header values of the METADATA entry
StreamLens == {U64(0), U64(1), U64(16383), U64(16384), U64(16385), U64(1000000),
               MaxU64}
CompressedSizes == {U64(0), U64(1), U64(8135), U64(8136), U64(8137), U64(70000),
                    sub(MaxU64, U64(8248)).value, sub(MaxU64, U64(8247)).value,
                    sub(MaxU64, U64(56)).value, MaxU64}
FilenameLens == {U64(26), U64(27)}
HeaderOffsets == {U64(0), U64(30000), sub(MaxU64, U64(8192)).value}

PrefetchInit ==
    /\ WheelBuilderInit
    /\ on_wheel_build_failure = "DeleteBuildEnv"
    /\ archive_bytes = <<>>
    /\ store = <<>>
    /\ extract = <<>>
    /\ codec = <<>>
    /\ wheel = <<>>
    /\ egg = <<>>
    /\ \E len \in StreamLens, compressed_size \in CompressedSizes,
          filename_len \in FilenameLens, header_offset \in HeaderOffsets,
          overflow_checks \in BOOLEAN :
          prefetch = [len |-> len, compressed_size |-> compressed_size,
                      filename_len |-> filename_len, header_offset |-> header_offset,
                      overflow_checks |-> overflow_checks,
                      pc |-> "start", ranges |-> <<>>, size |-> U64(0)]

\* get_lazy_vitals, "Make sure we have the back part of the stream"
prefetch_central_directory ==
    /\ prefetch.pc = "start"
    /\ prefetch' = [prefetch EXCEPT
                       !.pc = "directory",
                       !.ranges = Append(@, <<saturating_sub(prefetch.len,
                                                  U64(CENTRAL_DIRECTORY_SIZE)),
                                              prefetch.len>>)]
    /\ UNCHANGED <<builder, extractor, codec, wheel, egg>>

\* get_lazy_vitals, "Fetch the bytes from the zip archive that contain the
\* requested file": an operation that overflows panics in a build with
\* overflow checks and wraps around in a build without
prefetch_entry ==
    /\ prefetch.pc = "directory"
    /\ LET size == entry_size(prefetch.compressed_size, prefetch.filename_len)
           end == add(prefetch.header_offset, size.value)
       IN  IF prefetch.overflow_checks /\ (size.overflow \/ end.overflow)
           THEN prefetch' = [prefetch EXCEPT !.pc = "panicked"]
           ELSE prefetch' = [prefetch EXCEPT
                                !.pc = "entry",
                                !.size = size.value,
                                !.ranges = Append(@, <<prefetch.header_offset,
                                                       end.value>>)]
    /\ UNCHANGED <<builder, extractor, codec, wheel, egg>>

PrefetchNext ==
    \/ prefetch_central_directory
    \/ prefetch_entry

PrefetchSpec == PrefetchInit /\ [][PrefetchNext]_vars


\* ------------------------------------------------------- egg file names
\* EggExt
EggExts == {"Egg", "EggInfo"}

\* EggExt::as_str
as_str(extension) ==
    IF extension = "Egg" THEN "egg-info" ELSE "egg"

\* the values of the fields of an EggFilename: a normalized package name, a
\* version, and two strings without '-'
EggNames == {normalized(n) : n \in NameTokens}
EggVersions == {<<1>>, <<2>>}
PythonVersions == {<<"3.9">>, <<"2.7">>}
Platforms == {<<"linux">>, <<"win32">>}

Option(S) == {<<>>} \cup {<<x>> : x \in S}

EggFilenames ==
    [name : EggNames, version : Option(EggVersions),
     python_version : Option(PythonVersions),
     required_platform : Option(Platforms), extension : EggExts]

\* Display for Version: the release, as pep440 writes it
Version_to_string(v) == IF v = <<1>> THEN <<"1.0">> ELSE <<"2.0">>

\* Display for EggFilename
fmt(e) ==
    <<e.name>>
    \o (IF e.version # <<>> THEN <<"-">> \o Version_to_string(e.version[1])
        ELSE <<>>)
    \o (IF e.python_version # <<>> THEN <<"-", "py">> \o e.python_version[1]
        ELSE <<>>)
    \o (IF e.required_platform # <<>> THEN <<"-">> \o e.required_platform[1]
        ELSE <<>>)
    \o <<".", as_str(e.extension)>>

\* s.strip_suffix(".egg") and s.strip_suffix(".egg-info")
strip_suffix_ext(s, ext) ==
    IF Len(s) >= 2 /\ s[Len(s) - 1] = "." /\ s[Len(s)] = ext
    THEN <<SubSeq(s, 1, Len(s) - 2)>> ELSE <<>>

\* str::split(pat): the pieces between the occurrences of pat
RECURSIVE split(_, _)
split(s, pat) ==
    LET sp == split_once(s, {pat})
    IN  IF sp = <<>> THEN <<s>>
        ELSE <<sp[1][1]>> \o split(sp[1][2], pat)

\* str::strip_prefix
strip_prefix(s, prefix) ==
    IF s # <<>> /\ s[1] = prefix THEN <<Tail(s)>> ELSE <<>>

\* NormalizedPackageName::from_str
NormalizedPackageName_from_str(s) ==
    LET name == PackageName_from_str(s)
    IN  IF name = <<>> THEN <<>> ELSE <<name[1].normalized>>

\* FromStr for EggFilename
from_str(s) ==
    LET egg_rest == strip_suffix_ext(s, "egg")
        info_rest == strip_suffix_ext(s, "egg-info")
    IN  IF egg_rest = <<>> /\ info_rest = <<>>
        THEN Err(<<"UnrecognizedExtension">>)
        ELSE
        LET extension == IF egg_rest # <<>> THEN "Egg" ELSE "EggInfo"
            rest == IF egg_rest # <<>> THEN egg_rest[1] ELSE info_rest[1]
            parts == split(rest, "-")
            name == NormalizedPackageName_from_str(parts[1])
            version == IF Len(parts) >= 2 THEN Version_from_str(parts[2])
                       ELSE <<>>
            py_version == IF Len(parts) >= 3
                          THEN strip_prefix(parts[3], "py") ELSE <<>>
            required_platform == IF Len(parts) >= 4 THEN <<parts[4]>> ELSE <<>>
        IN  IF name = <<>> THEN Err(<<"InvalidPackageName">>)
            ELSE IF Len(parts) >= 2 /\ version = <<>>
            THEN Err(<<"InvalidVersion">>)
            ELSE IF Len(parts) >= 3 /\ py_version = <<>>
            THEN Err(<<"InvalidPythonVersion">>)
            ELSE Ok([name |-> name[1], version |-> version,
                     python_version |-> py_version,
                     required_platform |-> required_platform,
                     extension |-> extension])

\* an EggFilename value, not yet written out
EggInit ==
    /\ WheelBuilderInit
    /\ on_wheel_build_failure = "DeleteBuildEnv"
    /\ archive_bytes = <<>>
    /\ store = <<>>
    /\ extract = <<>>
    /\ codec = <<>>
    /\ wheel = <<>>
    /\ prefetch = <<>>
    /\ \E e \in EggFilenames :
          egg = [value |-> e, pc |-> "value", text |-> <<>>, parsed |-> <<>>]

\* e.to_string()
call_to_string ==
    /\ egg.pc = "value"
    /\ egg' = [egg EXCEPT !.text = fmt(egg.value), !.pc = "text"]
    /\ UNCHANGED <<builder, extractor, codec, wheel, prefetch>>

\* EggFilename::from_str(&text)
call_from_str ==
    /\ egg.pc = "text"
    /\ egg' = [egg EXCEPT !.parsed = <<from_str(egg.text)>>, !.pc = "parsed"]
    /\ UNCHANGED <<builder, extractor, codec, wheel, prefetch>>

EggNext ==
    \/ call_to_string
    \/ call_from_str

EggSpec == EggInit /\ [][EggNext]_vars


\* ================================================================== claims
\* From here on nothing models the program: the definitions below observe
\* the state of the models above and state the properties.

\* the provisioning attempts made for an sdist: one channel is created per
\* attempt, right before the sandbox constructor is started
Attempts(n) == {c \in 1..Len(channels) : channels[c].name = n}

\* an attempt that ended in an error, a panic or a cancellation
Failed(c) ==
    \/ channels[c].sent.kind = "None"
    \/ ~channels[c].alive /\ channels[c].sent.kind = "empty"

\* the tasks that are constructing the sandbox of an sdist
Provisioners(n) == {t \in Tasks : task[t].name = n /\ task[t].pc = "provision"}

\* the tasks a step takes out of rx.recv().await with a result
Received(t) ==
    /\ task[t].pc = "recv"
    /\ task'[t].pc # "recv"
    /\ task'[t].result # "cancelled"

\* a step in which task t enters build_wheel or get_sdist_metadata
Enters(t) ==
    /\ task[t].pc = "idle"
    /\ ncalls' = ncalls + 1
    /\ task'[t] # task[t]
    /\ task'[t].op \in {"build_wheel", "get_sdist_metadata"}

\* C1: single-flight.  As long as no provisioning attempt for an sdist fails,
\* panics or is cancelled, the sandbox constructor is started at most once
\* for it, however the concurrent setup_build_venv calls interleave.
C1_SingleFlight ==
    \A n \in Names :
        (\A c \in Attempts(n) : ~Failed(c)) => Cardinality(Attempts(n)) <= 1

\* C2: every task that subscribed to the channel of an attempt that sent
\* Some(env) leaves rx.recv() with Ok(env), the environment of the
\* provisioner, and never with an error.
C2_WaitersGetSandbox ==
    [][\A t \in Tasks :
          (Received(t) /\ channels[task[t].rx].sent.kind = "Some")
          => /\ task'[t].pc \in {"run_meta", "run_wheel"}
             /\ task'[t].env = channels[task[t].rx].sent.env]_vars

\* C3: per sdist at most one task is constructing the sandbox, it holds the
\* live sender that in_setup_venv points to, and at most one sender per
\* sdist is alive: whoever becomes provisioner does so after the sender of
\* every earlier attempt was dropped.
C3_OneProvisioner ==
    \A n \in Names :
        /\ Cardinality(Provisioners(n)) <= 1
        /\ Cardinality({c \in Attempts(n) : channels[c].alive}) <= 1
        /\ \A t \in Provisioners(n) :
              /\ channels[task[t].tx].alive
              /\ in_setup_venv[n] = task[t].tx

\* C3 witness: one task constructs the sandbox while another one, which
\* asked for the same sdist, waits on its channel.
C3_Witness ==
    \E t, u \in Tasks :
        /\ t # u
        /\ task[t].pc = "provision"
        /\ task[u].pc = "recv"
        /\ task[u].rx = task[t].tx
        /\ task[u].name = task[t].name

\* C4: panic recovery.  A task that looks into in_setup_venv and finds the
\* Weak of an attempt that ended without a broadcast installs a new channel
\* and becomes the provisioner: it does not wait and gets no error.
C4_PanicRecovery ==
    [][\A t \in Tasks :
          LET c == in_setup_venv[task[t].name] IN
          (/\ task[t].pc = "in_setup_check"
           /\ task'[t].pc # "in_setup_check"
           /\ c # 0
           /\ ~channels[c].alive
           /\ channels[c].sent.kind = "empty")
          => /\ task'[t].pc = "provision"
             /\ task'[t].result = "none"
             /\ task'[t].tx # c
             /\ in_setup_venv'[task[t].name] = task'[t].tx
             /\ channels'[task'[t].tx].alive
             /\ channels'[task'[t].tx].sent.kind = "empty"]_vars

\* C4 witness: a task is the provisioner of a second attempt for an sdist
\* whose first attempt ended without a broadcast.
C4_Witness ==
    \E t \in Tasks :
        /\ task[t].pc = "provision"
        /\ \E c \in Attempts(task[t].name) :
              /\ c < task[t].tx
              /\ ~channels[c].alive
              /\ channels[c].sent.kind = "empty"

\* C5 as claimed: per sdist at most one task runs the Wheel phase at any
\* instant.
C5_OneBuildAtATime ==
    \A n \in Names :
        Cardinality({t \in Tasks : task[t].name = n /\ task[t].pc = "run_wheel"}) <= 1

\* C5 amended: per sdist at most one sandbox construction is in progress at
\* any instant; the phases themselves are not serialised, and each of them
\* runs in a sandbox that was constructed for that sdist.
C5_OneProvisioningManyBuilds ==
    /\ \A n \in Names : Cardinality(Provisioners(n)) <= 1
    /\ \A t \in Tasks :
          task[t].pc \in {"run_meta", "run_wheel"}
          => /\ task[t].env \in 1..Len(envs)
             /\ envs[task[t].env].name = task[t].name

\* C5 witness: two tasks run the Wheel phase for the same sdist at once, in
\* the same sandbox.
C5_Witness ==
    \E t, u \in Tasks :
        /\ t # u
        /\ task[t].pc = "run_wheel"
        /\ task[u].pc = "run_wheel"
        /\ task[t].name = task[u].name
        /\ task[t].env = task[u].env


\* C6: a build_wheel or get_sdist_metadata call that finds a wheel for its
\* key in the wheel cache returns at once, build_wheel with the wheel and
\* get_sdist_metadata with what wheel.metadata() gives for it; it never
\* enters setup_build_venv or a phase, and leaves venv_cache, in_setup_venv
\* and saved_build_envs (and the channels and sandboxes) as they were.  The
\* build_wheel nested in the exit-code-50 fallback calls setup_build_venv
\* only on a miss.
C6_FastPath ==
    [][\A t \in Tasks :
          /\ (Enters(t) /\ from_sdist(task'[t].name, python_version) \in wheel_cache)
             => /\ task'[t].pc = "idle"
                /\ task'[t].via = "wheel_cache"
                /\ task'[t].result \in {"ok", "err_parse"}
                /\ task'[t].op = "build_wheel" => task'[t].result = "ok"
                /\ task'[t].env = 0
                /\ UNCHANGED <<venv_cache, in_setup_venv, saved_build_envs,
                               wheel_cache, channels, envs, locks>>
          /\ (task[t].pc = "run_meta" /\ task'[t].pc = "venv_lock")
             => from_sdist(task[t].name, python_version) \notin wheel_cache]_vars

\* C6 witness: a get_sdist_metadata call has returned the metadata of the
\* cached wheel.
C6_Witness ==
    \E t \in Tasks :
        /\ task[t].pc = "idle"
        /\ task[t].op = "get_sdist_metadata"
        /\ task[t].via = "wheel_cache"
        /\ task[t].result = "ok"
        /\ from_sdist(task[t].name, python_version) \in wheel_cache

\* C7: cache-write ordering.  Once a build_wheel call has returned Ok, every
\* build_wheel or get_sdist_metadata call for the same sdist that starts
\* afterwards takes the fast path and returns without a sandbox.
C7_CacheWriteOrdering ==
    [][\A t, u \in Tasks :
          (/\ Enters(t)
           /\ task[u].pc = "idle"
           /\ task[u].op = "build_wheel"
           /\ task[u].result = "ok"
           /\ task[u].name = task'[t].name)
          => /\ task'[t].pc = "idle"
             /\ task'[t].via = "wheel_cache"]_vars

\* C7 witness: one task built the wheel in a sandbox and returned Ok, and
\* another call for the same sdist was answered from the wheel cache.
C7_Witness ==
    \E t, u \in Tasks :
        /\ t # u
        /\ task[u].pc = "idle" /\ task[u].op = "build_wheel"
        /\ task[u].result = "ok" /\ task[u].via \in {"provisioned", "venv_cache", "waited"}
        /\ task[t].pc = "idle" /\ task[t].op = "build_wheel"
        /\ task[t].result = "ok" /\ task[t].via = "wheel_cache"
        /\ task[t].name = task[u].name

\* C8: the interpreter version is part of the key.  Every wheel in the cache
\* is stored under the builder's own version, and a lookup under any other
\* version is a miss.
C8_VersionInKey ==
    /\ \A k \in wheel_cache : k[2] = python_version
    /\ \A t \in Tasks :
          (task[t].op = "wheel_for_key" /\ task[t].ver # python_version)
          => task[t].result = "miss"

\* C8 witness: a wheel is stored for an sdist, and a lookup for that sdist
\* under another interpreter version missed.
C8_Witness ==
    \E t \in Tasks :
        /\ task[t].op = "wheel_for_key"
        /\ task[t].ver # python_version
        /\ task[t].result = "miss"
        /\ wheel_for_key(wheel_cache, <<task[t].name, python_version>>)

\* C9: when the construction fails with an error the provisioner sends None
\* and returns the error; every task that waits on the channel of that
\* attempt leaves rx.recv() with the "error during setup" error, and a
\* waiter gets the "panic during setup" error only on a channel that closed
\* without any value having been sent.
C9_FailureBroadcast ==
    [][\A t \in Tasks :
          /\ (task[t].pc = "provision" /\ task'[t].pc = "return_err")
             => channels'[task[t].tx].sent = None
          /\ (task[t].pc = "return_err" /\ task'[t].pc # "return_err")
             => task'[t].result = "err_setup"
          /\ (Received(t) /\ channels[task[t].rx].sent.kind = "None")
             => task'[t].result = "err_setup_failed"
          /\ (Received(t) /\ task'[t].result = "err_setup_panicked")
             => channels[task[t].rx].sent.kind = "empty"]_vars

\* C10: a task owns a lock only inside the section the lock protects: never
\* while it is suspended at rx.recv() or in the sandbox construction, never
\* while a phase runs, never after it returned, and never two at a time.
C10_NoLockAcrossAwait ==
    \A t \in Tasks :
        /\ venv_cache_lock = t => task[t].pc \in {"venv_get", "venv_insert"}
        /\ in_setup_venv_lock = t => task[t].pc = "in_setup_check"
        /\ saved_build_envs_lock = t => task[t].pc = "save_insert"

\* C10 witness: the provisioner is suspended in the sandbox construction
\* after releasing in_setup_venv, which the next task owns meanwhile.
C10_Witness ==
    \E t, u \in Tasks :
        /\ task[t].pc = "provision"
        /\ u # t
        /\ in_setup_venv_lock = u
        /\ task[u].name = task[t].name

\* a step of task t itself
Steps(t) == task'[t] # task[t]

\* the key build_wheel uses for the source of task t
Key(t) == from_sdist(task[t].name, python_version)

\* C11: when the WheelMetadata phase exits with code 50 the call goes on
\* with build_wheel for the same source (its lookup in the wheel cache, then
\* a build of its own) and answers with the metadata read from the wheel
\* that build produced; the Wheel phase gives code 50 no such meaning: there
\* it is a failure with the backend's stderr, and nothing is built again.
C11_MetadataFallback ==
    [][\A t \in Tasks :
          /\ (task[t].pc = "run_meta" /\ Steps(t)
                  /\ task'[t].code = MetadataUnsupported)
             => /\ task'[t].name = task[t].name
                /\ task'[t].op = "get_sdist_metadata"
                /\ \/ task'[t].nested /\ task'[t].pc = "venv_lock"
                   \/ /\ wheel_for_key(wheel_cache, Key(t))
                      /\ task'[t].pc = "handle_failure"
                      /\ task'[t].result \in {"ok", "err_parse"}
          /\ (task[t].nested /\ ~task'[t].nested /\ task[t].result = "ok"
                  /\ task'[t].pc = "handle_failure")
             => /\ wheel_for_key(wheel_cache, Key(t))
                /\ task'[t].result \in {"ok", "err_parse"}
          /\ (task[t].pc = "run_wheel" /\ Steps(t)
                  /\ task'[t].code = MetadataUnsupported)
             => /\ task'[t].result = "err_build"
                /\ task'[t].pc = "handle_failure"
                /\ task'[t].nested = task[t].nested
                /\ wheel_cache' = wheel_cache]_vars

\* C11 witness: after exit code 50 the nested build_wheel has run its Wheel
\* phase and stored the wheel whose metadata the call is about to read.
C11_Witness ==
    \E t \in Tasks :
        /\ task[t].op = "get_sdist_metadata"
        /\ task[t].nested
        /\ task[t].pc = "handle_failure"
        /\ task[t].result = "ok"
        /\ wheel_for_key(wheel_cache, Key(t))

\* C12: when the Wheel phase exits non-zero, or the WheelMetadata phase exits
\* non-zero with a code other than 50, the call fails with the error that
\* carries the backend's stderr, that error is what the call returns, and
\* the failing call stores no wheel: no step of it changes the wheel cache.
C12_BuildFailure ==
    [][\A t \in Tasks :
          /\ (task[t].pc \in {"run_meta", "run_wheel"} /\ Steps(t)
                  /\ task'[t].code # 0
                  /\ ~(task[t].pc = "run_meta"
                          /\ task'[t].code = MetadataUnsupported))
             => /\ task'[t].result = "err_build"
                /\ task'[t].pc = "handle_failure"
                /\ wheel_cache' = wheel_cache
          /\ (task[t].result = "err_build" /\ task[t].pc # "idle" /\ Steps(t))
             => /\ task'[t].result = "err_build"
                /\ task'[t].pc \in {"handle_failure", "save_insert", "idle"}
                /\ wheel_cache' = wheel_cache]_vars

\* C12 witness: a call has returned the stderr error of a failed phase, and
\* the wheel cache has no wheel for its source.
C12_Witness ==
    \E t \in Tasks :
        /\ task[t].op \in {"build_wheel", "get_sdist_metadata"}
        /\ task[t].pc = "idle"
        /\ task[t].result = "err_build"
        /\ ~wheel_for_key(wheel_cache, Key(t))

\* a step in which a build_wheel or get_sdist_metadata call of task t hands
\* the result of handle_build_failure back: to its caller, or (the nested
\* build_wheel) to get_sdist_metadata_internal
Returns(t) ==
    /\ task[t].pc \in {"handle_failure", "save_insert"}
    /\ task'[t].pc = "idle" \/ (task[t].nested /\ ~task'[t].nested)

\* C13: under SaveBuildEnv, whenever a build_wheel or get_sdist_metadata call
\* returns an error after it obtained a build environment, that environment
\* has been marked persistent and its work directory is in saved_build_envs
\* at the moment the call returns.
C13_SavedOnFailure ==
    [][on_wheel_build_failure = "SaveBuildEnv" =>
          \A t \in Tasks :
              (Returns(t) /\ task[t].result # "ok")
              => /\ task[t].env # 0
                 /\ envs'[task[t].env].persisted
                 /\ task[t].env \in saved_build_envs']_vars

\* C13 witness: under SaveBuildEnv a call has returned a build error and the
\* persisted environment of its source is in saved_build_envs.
C13_Witness ==
    /\ on_wheel_build_failure = "SaveBuildEnv"
    /\ \E t \in Tasks, e \in saved_build_envs :
           /\ task[t].pc = "idle"
           /\ task[t].result \in {"err_build", "err_other"}
           /\ envs[e].name = task[t].name
           /\ envs[e].persisted

\* the results with which a build_wheel or get_sdist_metadata call fails
Errors == {"err_build", "err_other", "err_parse", "err_setup",
           "err_setup_failed", "err_setup_panicked"}

\* the sources for which a call has failed
FailedNames ==
    {n \in Names : \E t \in Tasks :
        /\ task[t].op \in {"build_wheel", "get_sdist_metadata"}
        /\ task[t].pc = "idle"
        /\ task[t].name = n
        /\ task[t].result \in Errors}

\* the saved work directories that belong to source n
SavedFor(n) == {e \in saved_build_envs : envs[e].name = n}

\* under SaveBuildEnv no failed source is left without a saved directory
C14_NeverZero ==
    on_wheel_build_failure = "SaveBuildEnv" =>
        \A n \in FailedNames : SavedFor(n) # {}

\* under SaveBuildEnv no source has more than one saved directory
C14_NeverMoreThanOne ==
    on_wheel_build_failure = "SaveBuildEnv" =>
        \A n \in Names : Cardinality(SavedFor(n)) <= 1

\* C14: under SaveBuildEnv, after any sequence of possibly concurrent calls,
\* saved_build_envs holds exactly one path for each source for which a call
\* failed: never none (a failure during provisioning included) and never
\* more than one.
C14_ExactlyOneSaved ==
    on_wheel_build_failure = "SaveBuildEnv" =>
        \A n \in FailedNames : Cardinality(SavedFor(n)) = 1

\* C15: under DeleteBuildEnv a failing build_wheel or get_sdist_metadata call
\* makes the coordinator drop the build environment: once the failing call
\* has returned, venv_cache has no entry for its source.
C15_DroppedOnFailure ==
    on_wheel_build_failure = "DeleteBuildEnv" =>
        \A n \in FailedNames : venv_cache[n] = 0

\* the attempts that lost a waiter to cancellation and whose provisioner
\* went on to store its sandbox and to send it
StoredAfterCancel ==
    {c \in 1..Len(channels) :
        channels[c].rx_cancelled /\ channels[c].sent.kind = "Some"}

\* C16: dropping a task that waits on the broadcast channel leaves the
\* provisioner alone (no other task, channel or cache changes with it); the
\* provisioner stores its sandbox in venv_cache whether or not a receiver is
\* left; and from then on venv_cache keeps that sandbox for the source, so
\* that every setup_build_venv call started afterwards returns it from
\* venv_cache.
C16_CancelledWaiter ==
    [][\A t \in Tasks :
          /\ (task[t].pc = "recv" /\ task'[t].result = "cancelled")
             => /\ \A u \in Tasks \ {t} : task'[u] = task[u]
                /\ channels'[task[t].rx].alive = channels[task[t].rx].alive
                /\ channels'[task[t].rx].sent = channels[task[t].rx].sent
                /\ UNCHANGED <<venv_cache, in_setup_venv>>
          /\ (task[t].pc = "venv_insert" /\ Steps(t))
             => venv_cache'[task[t].name] = task[t].env
          /\ \A c \in StoredAfterCancel :
                /\ venv_cache[channels[c].name] = channels[c].sent.env
                /\ (task[t].pc = "venv_get" /\ Steps(t)
                        /\ task[t].name = channels[c].name)
                   => /\ task'[t].env = channels[c].sent.env
                      /\ task'[t].via = "venv_cache"]_vars

\* a step in which the provisioning task t is cancelled
ProvisionerCancelled(t) ==
    task[t].pc = "provision" /\ task'[t].result = "cancelled"

Extracted == {i \in Extracts : extract[i].result.kind = "Ok"}

\* C18: extraction is deterministic and idempotent: two invocations of
\* extract_zip_archive on the same zip bytes, into one cache directory or
\* into two fresh ones, return CachedArchives that compare equal.
C18_Deterministic ==
    \A i, j \in Extracted : eq(extract[i].result.archive, extract[j].result.archive)

\* C18 witness: the same bytes were extracted twice into one cache
\* directory, two files each, and the serialized entries of the two results
\* are in different orders.
C18_Witness ==
    \E i, j \in Extracted :
        /\ i # j
        /\ extract[i].cache = extract[j].cache
        /\ Len(extract[i].result.archive.files) = 2
        /\ extract[i].result.archive # extract[j].result.archive

\* C18 witness, second case: the same bytes were extracted into two fresh
\* cache directories.
C18_WitnessFresh ==
    \E i, j \in Extracted :
        /\ extract[i].cache # extract[j].cache
        /\ Len(extract[i].result.archive.files) >= 1

\* a step in which invocation i writes the file entry it is at to the cache
\* and records it
CommitsEntry(i) ==
    /\ extract[i].pc = "read"
    /\ extract[i].pos <= Len(archive_bytes)
    /\ ~is_dir(archive_bytes[extract[i].pos].name)
    /\ extract'[i].pos = extract[i].pos + 1

\* C19: the content store deduplicates: committing bytes that are already
\* in the store yields the Integrity of the blob that is there and adds no
\* blob, so once an extraction has returned, an extraction of the same
\* input into the same cache directory leaves its set of blobs unchanged.
C19_Dedup ==
    [][\A i \in Extracts :
          /\ CommitsEntry(i)
             => LET entry == archive_bytes[extract[i].pos] IN
                \A blob \in store[extract[i].cache] :
                    blob.data = entry.data
                    => /\ store' = store
                       /\ extract'[i].archive.files[entry.name].content
                              = to_string(blob.integrity)
          /\ (extract'[i] # extract[i]
                  /\ \E j \in Extracted \ {i} : extract[j].cache = extract[i].cache)
             => store' = store]_vars

\* C19 witness: two extractions of an archive with two different files have
\* returned from the same cache directory, which holds two blobs.
C19_Witness ==
    \E i, j \in Extracted :
        /\ i # j
        /\ extract[i].cache = extract[j].cache
        /\ Len(archive_bytes) = 2
        /\ archive_bytes[1].data # archive_bytes[2].data
        /\ Cardinality(store[extract[i].cache]) = 2

\* the content addresses of the blobs in cache directory c
Committed(c) == {to_string(blob.integrity) : blob \in store[c]}

\* C20: whenever extract_zip_archive returns a CachedArchive, the content of
\* every entry of its files is the Integrity of a blob that was committed
\* to the cache before the return: each entry is recorded only after its
\* commit, and the blobs stay.
C20_ContentCommitted ==
    \A i \in Extracts :
        /\ \A k \in DOMAIN extract[i].archive.files :
               extract[i].archive.files[k].content \in Committed(extract[i].cache)
        /\ i \in Extracted
           => \A k \in DOMAIN deref(extract[i].result.archive).files :
                  deref(extract[i].result.archive).files[k].content
                      \in Committed(extract[i].cache)

\* C20 witness: the first extraction into a cache directory has returned a
\* CachedArchive with a file in it.
C20_Witness ==
    \E i \in Extracted :
        /\ Len(extract[i].result.archive.files) >= 1
        /\ \A j \in Extracts \ {i} : extract[j].pc = "idle"

\* the entry invocation i is at, when there is one
AtEntry(i) == extract[i].pc = "read" /\ extract[i].pos <= Len(archive_bytes)

\* a name that is absolute or leaves the archive root
Escapes(n) ==
    \/ \E k \in DOMAIN n.components : n.components[k] = "/"
    \/ \E k \in DOMAIN n.components :
          /\ n.components[k] = ".."
          /\ 2 * Cardinality({j \in 1..k : n.components[j] = ".."}) > k

\* C21: extract_zip_archive rejects the archive as soon as it meets an entry
\* whose name is absolute, has a ".." component that leaves the archive
\* root, or is not valid UTF-8: the invocation ends at that entry with
\* InvalidEntry(name, reason) and writes nothing for it, whatever entries
\* come before or after, and no CachedArchive is ever returned for a stream
\* with such an entry.
C21_InvalidEntry ==
    [][\A i \in Extracts :
          /\ (AtEntry(i) /\ extract'[i] # extract[i])
             => LET entry == archive_bytes[extract[i].pos] IN
                (entry.header /\ (Escapes(entry.name) \/ ~entry.name.utf8))
                => /\ extract'[i].pc = "done"
                   /\ extract'[i].result.kind = "Err"
                   /\ extract'[i].result.error[1] = "InvalidEntry"
                   /\ extract'[i].result.error[2] = entry.name
                   /\ extract'[i].result.error[3] =
                          IF Escapes(entry.name) THEN "is not a valid path"
                          ELSE "is not a valid utf-8 path"
                   /\ store' = store
          /\ extract'[i].result.kind = "Ok"
             => \A k \in DOMAIN archive_bytes :
                    /\ ~Escapes(archive_bytes[k].name)
                    /\ archive_bytes[k].name.utf8]_vars

\* C21 witness: a file was written to the cache, and the entry after it was
\* rejected for its name.
C21_Witness ==
    \E i \in Extracts :
        /\ extract[i].pc = "done"
        /\ extract[i].pos = 2
        /\ extract[i].result.kind = "Err"
        /\ extract[i].result.error[1] = "InvalidEntry"
        /\ store[extract[i].cache] # {}

\* the invocations of extract_zip_archive that returned an error
Aborted == {i \in Extracts : extract[i].result.kind = "Err"}

\* the blobs of the file entries of the stream before entry k
BlobsBefore(k) ==
    {[integrity |-> integrity(archive_bytes[j].data), data |-> archive_bytes[j].data] :
        j \in {j \in 1..(k - 1) : ~is_dir(archive_bytes[j].name)}}

\* C22: when an extraction aborts at entry k it is over and has produced no
\* CachedArchive; the blobs committed for the file entries before k are
\* still in the cache (nothing is rolled back), and nothing of entry k or of
\* the entries after it is written: a cache directory that no other
\* invocation uses holds exactly the blobs of the entries before k.
C22_AbortKeepsBlobs ==
    \A i \in Aborted :
        /\ extract[i].pc = "done"
        /\ DOMAIN extract[i].result = {"kind", "error"}
        /\ BlobsBefore(extract[i].pos) \subseteq store[extract[i].cache]
        /\ (\A j \in Extracts \ {i} : extract[j].cache # extract[i].cache)
           => store[extract[i].cache] = BlobsBefore(extract[i].pos)

\* C22 witness: the first file was committed and writing the second file,
\* of other content, to the cache failed: the cache holds the first blob only.
C22_Witness ==
    \E i \in Aborted :
        /\ extract[i].pos = 2
        /\ extract[i].result.error[1] = "CacheError"
        /\ archive_bytes[1].data # archive_bytes[2].data
        /\ Cardinality(store[extract[i].cache]) = 1

\* the paths in directories and the keys of files of a returned CachedArchive
Directories(a) == {deref(a).directories[k] : k \in DOMAIN deref(a).directories}
Files(a) == DOMAIN deref(a).files

\* C23: in every CachedArchive that extract_zip_archive returns each entry
\* of the stream is recorded once, by its kind: a name that ends in a slash
\* is in directories, any other name is a key of files, the two together
\* are the set of entry names of the stream, and no path is in both.
C23_Partition ==
    \A i \in Extracted :
        LET a == extract[i].result.archive
            names == {archive_bytes[k].name : k \in DOMAIN archive_bytes}
        IN  /\ Directories(a) \cup Files(a) = names
            /\ Directories(a) \cap Files(a) = {}
            /\ \A n \in names : n.slash <=> n \in Directories(a)

\* C23 witness: the returned CachedArchive has the directory "d/" and the
\* file "d".
C23_Witness ==
    \E i \in Extracted :
        \E dir \in Directories(extract[i].result.archive),
           file \in Files(extract[i].result.archive) :
            dir.components = file.components

\* C24: every file entry of a manifest returned by an extraction carries a
\* sha256 field next to content (the text "sha256=" followed by the digest
\* of the bytes that content is the integrity of).
C24_Sha256Present ==
    \A i \in Extracted :
        LET a == extract[i].result.archive
        IN  \A f \in Files(a) : "sha256" \in DOMAIN deref(a).files[f]

\* the file holds all of the bytes that serializing codec.data produced
Intact == codec.pc \in {"file", "read", "deserialized"} /\ codec.file = codec.archive

Matching ==
    {i \in DOMAIN wheel.archive :
        \E n \in NameTokens, v \in VersionTokens, sep \in {"/", "\\"} :
            /\ wheel.archive[i].name = Path(n, v, ".dist-info", sep, "METADATA")
            /\ normalized(n) = wheel.name.distribution.normalized
            /\ Version_from_str(<<v>>) = <<wheel.name.version>>}

\* the dist-info prefix of a member: what stands before ".dist-info"
Prefix(i) == SubSeq(wheel.archive[i].name, 1, 3)

\* the errors of a remote read that did not get to see the archive
OpenErrors == {<<"Report", "IoError">>, <<"Report", "AsyncZipError", <<"/">>>>}

\* C26: a wheel with no member <name>-<version>.dist-info/METADATA of the
\* filename's name and version fails with DistInfoMissing; dist-info
\* directories of another name or version do not count.
C26_DistInfoMissing ==
    Matching = {} =>
        /\ wheel.local # NotRead => wheel.local = Err(<<"DistInfoMissing">>)
        /\ wheel.remote # NotRead =>
              /\ wheel.remote.kind = "Err"
              /\ wheel.remote.error \in OpenErrors \cup {<<"Report", "DistInfoMissing">>}

\* the wheel rich-1.0 holds the dist-info directories of other-1.0 and of
\* rich-2.0, and reading its metadata has failed with DistInfoMissing
C26_Witness ==
    /\ wheel.name.version = <<1>>
    /\ wheel.local = Err(<<"DistInfoMissing">>)
    /\ \E i, j \in DOMAIN wheel.archive :
          /\ wheel.archive[i].name = Path("other", "1.0", ".dist-info", "/", "METADATA")
          /\ wheel.archive[j].name = Path("rich", "2.0", ".dist-info", "/", "METADATA")

\* C27: with two or more members matching <prefix>.dist-info/METADATA for
\* the filename's name and version the lookup fails with
\* MultipleSpecialDirs("dist-info"); with exactly one, find_dist_info
\* returns the prefix of that member.
C27_MultipleSpecialDirs ==
    /\ Cardinality(Matching) >= 2 =>
          /\ wheel.local # NotRead =>
                wheel.local = Err(<<"MultipleSpecialDirs", "dist-info">>)
          /\ wheel.remote # NotRead =>
                /\ wheel.remote.kind = "Err"
                /\ wheel.remote.error \in
                      OpenErrors \cup {<<"Report", "MultipleSpecialDirs", "dist-info">>}
    /\ Cardinality(Matching) = 1 /\ (wheel.local # NotRead \/ wheel.remote # NotRead) =>
          /\ \A i \in Matching :
                find_dist_info(wheel.name, file_names(wheel.archive)) = Ok(Prefix(i))
          /\ wheel.local \notin {Err(<<"MultipleSpecialDirs", "dist-info">>),
                                 Err(<<"DistInfoMissing">>)}

\* the wheel holds rich-1.0.dist-info/METADATA and
\* Rich-1.0.0.dist-info/METADATA, and reading its metadata has failed
C27_Witness ==
    /\ wheel.local = Err(<<"MultipleSpecialDirs", "dist-info">>)
    /\ \E i, j \in Matching : Prefix(i) # Prefix(j)

\* the METADATA that a lookup reads: the members named
\* <prefix>.dist-info/METADATA for the prefix of the one matching member
Located ==
    IF Cardinality(Matching) # 1 THEN {}
    ELSE UNION {indices(wheel.archive, metadata_path(Prefix(i))) : i \in Matching}

\* the name or the version of a parsed METADATA is not that of the filename
Disagrees(parsed) ==
    \/ parsed.name.normalized # wheel.name.distribution.normalized
    \/ parsed.version # wheel.name.version

\* C28: ArchivedWheel::metadata returns (raw bytes, parsed metadata) only
\* when the parsed name and version both equal those of the filename; when
\* either disagrees it fails with FailedToParse.
C28_Consistent ==
    /\ wheel.local.kind = "Ok" =>
          /\ ~Disagrees(wheel.local.value[2])
          /\ \E i \in Located :
                /\ wheel.local.value[1] = wheel.archive[i].data
                /\ try_from(wheel.archive[i].data) = Ok(wheel.local.value[2])
    /\ \A i \in Located :
          LET parsed == try_from(wheel.archive[i].data)
          IN  /\ wheel.local # NotRead
              /\ parsed.kind = "Ok"
              /\ Disagrees(parsed.value)
              => /\ wheel.local.kind = "Err"
                 /\ \/ wheel.local.error \in {<<"IoError">>,
                                              <<"ZipError", wheel.archive[i].name>>}
                    \/ SubSeq(wheel.local.error, 1, 2) = <<"InvalidMetadata", "FailedToParse">>

\* the METADATA of rich-1.0 names rich in version 2.0, and reading it has
\* failed on the version
C28_Witness ==
    /\ wheel.local = Err(<<"InvalidMetadata", "FailedToParse", "version mismatch">>)
    /\ \E i \in Located :
          /\ wheel.archive[i].data = Blob("rich", "2.0")
          /\ wheel.name.version = <<1>>

\* C29: the remote path returns metadata only when the name and the version
\* of the fetched METADATA are those of the filename.
C29_RemoteConsistent ==
    wheel.remote.kind = "Ok" => ~Disagrees(wheel.remote.value[2])

\* C30: when the dist-info directory of the filename is located but the
\* archive has no member <prefix>.dist-info/METADATA, the lookup fails with
\* MetadataMissing.
C30_MetadataMissing ==
    Cardinality(Matching) = 1 /\ Located = {} =>
        /\ wheel.local # NotRead => wheel.local = Err(<<"MetadataMissing">>)
        /\ wheel.remote # NotRead =>
              /\ wheel.remote.kind = "Err"
              /\ wheel.remote.error \in OpenErrors \cup {<<"Report", "MetadataMissing">>}

\* the only METADATA of the wheel is rich-1.0.dist-info\METADATA, and both
\* the local and the remote read have failed with MetadataMissing
C30_Witness ==
    /\ Cardinality(Matching) = 1
    /\ Located = {}
    /\ wheel.local = Err(<<"MetadataMissing">>)
    /\ wheel.remote = Err(<<"Report", "MetadataMissing">>)

\* a < b for numbers given by their limbs
Less(a, b) ==
    \E i \in DOMAIN a : a[i] < b[i] /\ \A j \in DOMAIN a : j > i => a[j] = b[j]

\* compressed size + 30 + filename length as the number it is (five limbs:
\* it may be 2^64 or more), and that number plus 8192
RawSize ==
    SubSeq(add_limbs(add_limbs(prefetch.compressed_size, U64(HeaderSize), 0),
                     prefetch.filename_len \o <<0>>, 0), 1, 5)
RawSizePlusBuffer == SubSeq(add_limbs(RawSize, U64(buffer_size) \o <<0>>, 0), 1, 5)

\* the first prefetch is [max(0, len - 16384), len)
TailPrefetched ==
    /\ prefetch.ranges[1][2] = prefetch.len
    /\ IF Less(prefetch.len, U64(CENTRAL_DIRECTORY_SIZE))
       THEN prefetch.ranges[1][1] = U64(0)
       ELSE add(prefetch.ranges[1][1], U64(CENTRAL_DIRECTORY_SIZE))
                = [value |-> prefetch.len, overflow |-> FALSE]

\* the size of the second prefetch is a multiple of 8192, at least the raw
\* size and less than the raw size plus 8192
RoundedUp ==
    /\ prefetch.size[1] % buffer_size = 0
    /\ ~Less(prefetch.size \o <<0>>, RawSize)
    /\ Less(prefetch.size \o <<0>>, RawSizePlusBuffer)

\* C31: in the range-fetched path the first prefetch covers
\* [max(0, len - 16384), len), and the size of the METADATA prefetch is
\* compressed size + 30 + filename length rounded up to the next multiple
\* of 8192.
C31_Prefetch ==
    /\ prefetch.pc # "start" => TailPrefetched
    /\ prefetch.pc = "entry" => RoundedUp

\* C31 for header values that keep every sum below 2^64: no panic, and the
\* prefetch is rounded up
C31_PrefetchInRange ==
    /\ prefetch.pc # "start" => TailPrefetched
    /\ ~entry_size(prefetch.compressed_size, prefetch.filename_len).overflow =>
          /\ prefetch.pc = "entry" => RoundedUp
          /\ prefetch.pc = "panicked" =>
                add(prefetch.header_offset,
                    entry_size(prefetch.compressed_size,
                               prefetch.filename_len).value).overflow

\* a prefetch of 8192 bytes has been made for a raw size of exactly 8192
C31_WitnessInRange ==
    /\ prefetch.pc = "entry"
    /\ prefetch.compressed_size = U64(8136)
    /\ prefetch.filename_len = U64(26)
    /\ prefetch.size = U64(8192)

\* ------------------------------------------------------------------- C32
\* a waiter that holds Some(sandbox) from the channel: delivered and not yet
\* taken out of recv, or returned by recv into the phase that follows
HoldsBroadcast(t) ==
    \/ task[t].pc = "recv" /\ task[t].rx_val.kind = "Some"
    \/ /\ task[t].via = "waited"
       /\ task[t].pc \in {"run_meta", "run_wheel"}
       /\ task[t].env # 0

\* C32: on success the sandbox is inserted into venv_cache before
\* Some(sandbox) is broadcast: whenever Some(sandbox) was sent on a channel,
\* and whenever a waiter has received it, venv_cache has an entry for the
\* identity.
C32_StoredBeforeBroadcast ==
    /\ \A c \in 1..Len(channels) :
          channels[c].sent.kind = "Some" => venv_cache[channels[c].name] # 0
    /\ \A t \in Tasks : HoldsBroadcast(t) => venv_cache[task[t].name] # 0

\* a waiter has come out of recv with the sandbox that venv_cache holds
C32_Witness ==
    \E t \in Tasks :
        /\ task[t].via = "waited"
        /\ task[t].pc = "run_wheel"
        /\ task[t].env # 0
        /\ venv_cache[task[t].name] = task[t].env

\* ------------------------------------------------------------------- C33
\* the failure arm of setup_build_venv as run by task t: tx.send(None), then
\* the return of Err(e)
FailureArm(t) ==
    \/ task[t].pc = "provision" /\ task'[t].pc = "return_err"
    \/ task[t].pc = "return_err" /\ Steps(t)

\* an attempt whose provisioner sent None and has returned
FailedAndReturned(c) ==
    /\ channels[c].sent.kind = "None"
    /\ ~channels[c].alive
    /\ channels[c].end = "returned"

\* C33: a failed provisioning attempt leaves venv_cache unchanged, and once
\* the failed provisioner has returned, a task that looks into in_setup_venv
\* and finds the Weak of that attempt installs a new channel and becomes the
\* provisioner: it does not wait and does not get the earlier failure.
C33_FailureNotCached ==
    [][\A t \in Tasks :
          /\ FailureArm(t) => venv_cache' = venv_cache
          /\ LET c == in_setup_venv[task[t].name] IN
             (/\ task[t].pc = "in_setup_check"
              /\ task'[t].pc # "in_setup_check"
              /\ c # 0
              /\ FailedAndReturned(c))
             => /\ task'[t].pc = "provision"
                /\ task'[t].via = "provisioned"
                /\ task'[t].result = "none"
                /\ task'[t].tx = Len(channels) + 1
                /\ in_setup_venv'[task[t].name] = task'[t].tx
                /\ channels'[task'[t].tx] = new_channel(task[t].name)]_vars

\* a task provisions anew for an sdist whose previous attempt failed and
\* returned, and venv_cache has no entry for it
C33_Witness ==
    \E t \in Tasks :
        /\ task[t].pc = "provision"
        /\ venv_cache[task[t].name] = 0
        /\ \E c \in Attempts(task[t].name) :
              c < task[t].tx /\ FailedAndReturned(c)

\* ------------------------------------------------------------------- C34
\* task t looks into venv_cache and finds an entry for its sdist
CacheHit(t) ==
    /\ task[t].pc = "venv_get"
    /\ Steps(t)
    /\ venv_cache[task[t].name] # 0

\* C34: a setup_build_venv call that finds an entry for its sdist in
\* venv_cache returns that entry at once: no sandbox is constructed, no
\* channel is created, and in_setup_venv is neither locked nor modified.
C34_CachedSandboxReturned ==
    [][\A t \in Tasks :
          CacheHit(t)
          => /\ task'[t].env = venv_cache[task[t].name]
             /\ task'[t].pc \in {"run_meta", "run_wheel"}
             /\ task'[t].via = "venv_cache"
             /\ task'[t].result = "none"
             /\ task'[t].tx = 0 /\ task'[t].rx = 0
             /\ envs' = envs
             /\ channels' = channels
             /\ in_setup_venv' = in_setup_venv
             /\ in_setup_venv_lock' = in_setup_venv_lock
             /\ venv_cache' = venv_cache]_vars

\* a call has returned the cached sandbox of an sdist whose only attempt is
\* the one that stored it
C34_Witness ==
    \E t \in Tasks :
        /\ task[t].via = "venv_cache"
        /\ task[t].pc = "run_wheel"
        /\ task[t].env = venv_cache[task[t].name]
        /\ Cardinality(Attempts(task[t].name)) = 1
        /\ Len(envs) = 1

\* ------------------------------------------------------------------- C35
\* how far a call has come: setup_build_venv, the WheelMetadata phase, the
\* setup_build_venv of the nested build_wheel, the Wheel phase, the
\* handle_build_failure of the nested build_wheel, that of the call itself,
\* the return to the caller
SetupProgress(pc) ==
    CASE pc = "venv_lock" -> 1
      [] pc = "venv_get" -> 2
      [] pc = "in_setup_lock" -> 3
      [] pc = "in_setup_check" -> 4
      [] pc \in {"recv", "provision"} -> 5
      [] pc = "venv_insert" -> 6
      [] pc = "send" -> 7
      [] pc \in {"return_ok", "return_err"} -> 8

Progress(l) ==
    CASE l.pc = "idle" -> 40
      [] l.pc = "run_meta" -> 10
      [] l.pc = "run_wheel" -> 30
      [] l.pc = "handle_failure" -> IF l.nested THEN 31 ELSE 33
      [] l.pc = "save_insert" -> IF l.nested THEN 32 ELSE 34
      [] OTHER -> SetupProgress(l.pc) + (IF l.nested THEN 10 ELSE 0)

\* a step of task t itself (not the delivery of a broadcast to it)
Acts(t) == [task'[t] EXCEPT !.rx_val = task[t].rx_val] # task[t]

\* C35: no implicit retry.  Every step of a call takes it further towards its
\* return, so the WheelMetadata phase and the Wheel phase each run at most
\* once per call; get_sdist_metadata runs the Wheel phase only in the nested
\* build_wheel after exit code 50; and a call that has failed keeps its error
\* and enters no phase until it has returned.
C35_NoRetry ==
    [][\A t \in Tasks :
          /\ (Acts(t) /\ task[t].pc # "idle")
             => /\ Progress(task'[t]) > Progress(task[t])
                /\ ncalls' = ncalls
          /\ (Acts(t) /\ task[t].pc # "idle" /\ task[t].result \in Errors)
             => /\ task'[t].result = task[t].result
                /\ task'[t].pc \notin {"run_meta", "run_wheel"}
          /\ (task'[t].pc = "run_wheel" /\ task'[t].op = "get_sdist_metadata")
             => /\ task'[t].nested
                /\ task'[t].code = MetadataUnsupported
          /\ task'[t].pc = "run_meta"
             => task'[t].op = "get_sdist_metadata" /\ ~task'[t].nested]_vars

\* the Wheel phase of the exit-code-50 fallback has failed and the call is
\* on its way back with the build error
C35_Witness ==
    \E t \in Tasks :
        /\ task[t].op = "get_sdist_metadata"
        /\ task[t].nested
        /\ task[t].pc = "handle_failure"
        /\ task[t].result = "err_build"

\* ------------------------------------------------------------------- C36
\* C36: once venv_cache holds a sandbox for an sdist that entry is never
\* replaced or removed, and every call that obtains a sandbox for the sdist
\* obtains the one that venv_cache holds.
C36_FirstSandboxKept ==
    [][/\ \A n \in Names :
             venv_cache[n] # 0 => venv_cache'[n] = venv_cache[n]
       /\ \A t \in Tasks :
             (Acts(t) /\ task'[t].pc \in {"run_meta", "run_wheel"}
                      /\ venv_cache'[task[t].name] # 0)
             => task'[t].env = venv_cache'[task[t].name]]_vars

\* ------------------------------------------------------------------- C37
\* C37: on a runtime that keeps polling, every task suspended in rx.recv()
\* eventually leaves it, also one that subscribed after the provisioner had
\* sent its value.
C37_WaitersReturn ==
    \A t \in Tasks : (task[t].pc = "recv") ~> (task[t].pc # "recv")

\* a waiter has left recv with the error of a closed channel although every
\* attempt for its sdist broadcast a value: it had subscribed after the send
C37_Witness ==
    \E t \in Tasks :
        /\ task[t].pc = "idle"
        /\ task[t].via = "waited"
        /\ task[t].result = "err_setup_panicked"
        /\ \A c \in Attempts(task[t].name) : channels[c].sent.kind # "empty"

\* ------------------------------------------------------------------- C38
\* the build environments that were persisted
Persisted == {e \in 1..Len(envs) : envs[e].persisted}

\* task t is in handle_build_failure with an error, under SaveBuildEnv
FailsUnderSave(t) ==
    /\ on_wheel_build_failure = "SaveBuildEnv"
    /\ task[t].pc \in {"handle_failure", "save_insert"}
    /\ task[t].result \in Errors
    /\ Acts(t)

\* C38: saved_build_envs only grows, and only by the environment of a call
\* that fails under SaveBuildEnv; environments are persisted by such calls
\* alone; a call that succeeds changes neither; and under DeleteBuildEnv
\* saved_build_envs stays empty and nothing is persisted.
C38_SavedOnlyOnFailure ==
    [][/\ saved_build_envs \subseteq saved_build_envs'
       /\ saved_build_envs' # saved_build_envs
          => \E t \in Tasks :
                /\ FailsUnderSave(t)
                /\ saved_build_envs' = saved_build_envs \cup {task[t].env}
       /\ Persisted' # Persisted
          => \E t \in Tasks :
                /\ FailsUnderSave(t)
                /\ Persisted' = Persisted \cup {task[t].env}
       /\ \A t \in Tasks :
             (Acts(t) /\ task[t].pc # "idle" /\ task[t].result = "ok")
             => saved_build_envs' = saved_build_envs /\ Persisted' = Persisted
       /\ on_wheel_build_failure = "DeleteBuildEnv"
          => /\ saved_build_envs = {} /\ saved_build_envs' = {}
             /\ Persisted = {} /\ Persisted' = {}]_vars

\* under SaveBuildEnv one call has succeeded and another has failed: only
\* the environment of the failed one was persisted and saved
C38_Witness ==
    /\ on_wheel_build_failure = "SaveBuildEnv"
    /\ \E t, u \in Tasks :
          /\ task[t].pc = "idle" /\ task[t].result = "ok"
          /\ task[t].via \in {"provisioned", "waited", "venv_cache"}
          /\ task[u].pc = "idle" /\ task[u].result \in Errors
          /\ Cardinality(saved_build_envs) = 1
          /\ saved_build_envs = Persisted

\* ------------------------------------------------------------------- C39
\* the optional fields are given from the left: no python version without a
\* version, no platform without a python version
Contiguous(e) ==
    /\ e.python_version # <<>> => e.version # <<>>
    /\ e.required_platform # <<>> => e.python_version # <<>>

\* C39: as_str gives "egg" for Egg and "egg-info" for EggInfo, and parsing
\* what Display wrote gives the EggFilename back.
C39_RoundTrip ==
    egg.pc = "parsed"
    => /\ as_str("Egg") = "egg"
       /\ as_str("EggInfo") = "egg-info"
       /\ egg.parsed = <<Ok(egg.value)>>

\* what the code does instead: the extension comes back exchanged, the other
\* fields come back as they were when the optional fields are given from
\* the left
C39_ExtensionExchanged ==
    (egg.pc = "parsed" /\ Contiguous(egg.value))
    => egg.parsed =
          <<Ok([egg.value EXCEPT !.extension =
                    IF egg.value.extension = "Egg" THEN "EggInfo" ELSE "Egg"])>>

=============================================================================
